---- MODULE Spec2Model ----
(***************************************************************************)
(* Thumbnail acquisition and caching layer of PhotoWall                    *)
(* (photowall-qt/src/core/ThumbnailProvider.{h,cpp}, RustBridge.cpp).      *)
(*                                                                         *)
(* Threads.  requestImageResponse / ThumbnailResponse::ThumbnailResponse   *)
(* and ~ThumbnailResponse run on the caller (image loader) thread, one     *)
(* call at a time.  notifyThumbnailReady runs on the thread RustBridge     *)
(* lives on, one queued event at a time.  clearCache, setCacheSize,        *)
(* initialize and shutdown are single critical sections and may run at     *)
(* any moment.  Every step below is one critical section of m_cacheMutex,  *)
(* m_pendingMutex or RustBridge::m_mutex together with the thread-local    *)
(* code around it.                                                         *)
(*                                                                         *)
(* A call through a pointer to a destroyed response is undefined: what it  *)
(* reads from the freed object is any value.  A process the call kills     *)
(* takes no further step, which every behaviour below may do as well.      *)
(***************************************************************************)
EXTENDS Integers, Sequences, FiniteSets, TLC

\* ------------------------------------------------------------------ bounds
MaxRequests == 2      \* requests created in one run
MaxQueue == 1         \* completion events waiting in the Qt event queue
MaxCacheSize == 1     \* largest argument given to setCacheSize
MaxCapacity == 3      \* largest capacity of the cache taken by itself
MaxEvents == 3        \* events in a run in which the engine sends its own
MaxThreads == 2       \* threads calling into the provider at the same time

\* ------------------------------------------------------------ program data
DEFAULT_CACHE_SIZE == 200

ReqIds == 1..MaxRequests
Hashes == {"h1", "h2"}
Sizes == {"small", "large"}
Keys == Hashes \X Sizes

NullImage == [kind |-> "null", fileHash |-> "", size |-> ""]
ArtifactImage(h, s) == [kind |-> "artifact", fileHash |-> h, size |-> s]
PlaceholderImage(h, s) == [kind |-> "placeholder", fileHash |-> h, size |-> s]

NoResponse ==
    [pc |-> "unborn", fileHash |-> "", hasPath |-> FALSE, size |-> "",
     image |-> NullImage, error |-> "", finished |-> FALSE,
     enqueued |-> FALSE]

NoEvent ==
    [fileHash |-> "", size |-> "", path |-> FALSE, isPlaceholder |-> FALSE,
     b64 |-> FALSE, useOriginal |-> FALSE]

IdleNotify == [pc |-> "idle", responses |-> {}, ev |-> NoEvent, cur |-> 0]

VARIABLES
    handle,             \* RustBridge::m_handle != nullptr
    m_imageCache,       \* QCache contents, most recently used first
    maxCost,            \* QCache::maxCost()
    m_pendingRequests,  \* QHash<QString, QSet<ThumbnailResponse*>>
    resp,               \* the ThumbnailResponse objects; enqueued: the engine
                        \* accepted the entry of this request
    engineJobs,         \* entries the engine accepted and has not answered
    evq,                \* thumbnail-ready events queued to the bridge thread
    notify,             \* the running notifyThumbnailReady call
    enqCalls,           \* enqueue calls that reached the engine, per key
    enqOpen,            \* enqueue calls per identity since its set was opened
    processed,          \* completion events taken off the queue so far
    emitted,            \* finished() emissions per request
    removals,           \* effective removals from the registry per request
    registered,         \* requests addPendingRequest was called for
    dangling,           \* a destroyed response has been called into
    kept,               \* keys Delivered since the cache was last cleared or
                        \* resized and not evicted since
    uses,               \* keys by their last use, most recent first
    hit,                \* what the last hasCachedImage call returned
    thr,                \* the provider call each thread is in
    m_pendingMutex,     \* the thread holding ThumbnailProvider::m_pendingMutex
    m_cacheMutex,       \* the thread holding ThumbnailProvider::m_cacheMutex
    calls,              \* handleThumbnailReady calls made, per response
    photo,              \* the photo and size class a request token is built for
    id,                 \* the token handed to requestImageResponse
    parsed,             \* hashPart, filePath and size after the parse
    handed,             \* events each producer thread gave to eventCallback
    posted,             \* the posted events of the bridge's thread, oldest first
    signals,            \* processEvent calls so far: the event and the thread
    photoCount,         \* photos in the engine's database (ids 1..photoCount)
    m_photos,           \* PhotoModel::m_photos of each model: the photo ids
    m_idToIndex,        \* PhotoModel::m_idToIndex
    m_nextCursor,       \* PhotoModel::m_nextCursor: <<>> or <<offset>>
    m_searchFilters,    \* PhotoModel::m_searchFilters
    m_totalCount,       \* PhotoModel::m_totalCount
    m_loading,          \* PhotoModel::m_loading
    m_hasMore,          \* PhotoModel::m_hasMore
    loadedWith,         \* the filters of each model's last loadInitial
    mixed,              \* a loadMore ran with other filters than loadedWith
    lastCall,           \* the last PhotoModel call that returned
    loadCalls,          \* loadInitial, refresh and loadMore calls so far
    m_selectedIds,      \* PhotoStore::m_selectedIds
    modelSelectedIds,   \* PhotoModel::m_selectedIds of the photo model
    m_indexing,         \* PhotoStore::m_indexing
    m_currentIndexJobId, \* PhotoStore::m_currentIndexJobId
    coreJob,            \* the indexing job of the core: its id and its state
    storeEvents,        \* index events queued to the store, oldest first
    startCalls          \* startIndexing calls so far

\* State of the finer-grained specifications further down.
\* State of the specifications of single functions and of the other classes.
modelVars == <<photoCount, m_photos, m_idToIndex, m_nextCursor, m_searchFilters,
               m_totalCount, m_loading, m_hasMore, loadedWith, mixed, lastCall,
               loadCalls>>

storeVars == <<m_selectedIds, modelSelectedIds, m_indexing, m_currentIndexJobId,
               coreJob, storeEvents, startCalls>>

sub == <<photo, id, parsed, handed, posted, signals, modelVars, storeVars>>

aux == <<uses, hit, thr, m_pendingMutex, m_cacheMutex, calls, sub>>

vars == <<handle, m_imageCache, maxCost, m_pendingRequests, resp, engineJobs,
          evq, notify, enqCalls, enqOpen, processed, emitted, removals,
          registered, dangling, kept, aux>>

\* ------------------------------------------------------- QCache<QString,QImage>
\* QCache::contains: no effect on recency.
HasCachedImage(c, key) == \E i \in 1..Len(c) : c[i].key = key

CacheWithout(c, key) == SelectSeq(c, LAMBDA e : e.key # key)

\* Mutant: trim that unlinks nothing.
TrimNothing(c, m) == c

\* QCache::trim(m): unlink least recently used entries while total > m.
Trim(c, m) == IF Len(c) > m THEN SubSeq(c, 1, IF m > 0 THEN m ELSE 0) ELSE c

\* QCache::insert(key, object, cost = 1).
CacheInsert(c, mx, key, img) ==
    IF 1 > mx
    THEN CacheWithout(c, key)
    ELSE <<[key |-> key, img |-> img]>> \o CacheWithout(Trim(c, mx - 1), key)

\* Mutant: object() that does not relink the entry it returns.
CacheTouchKeepsOrder(c, key) == c

\* QCache::object(key): the entry moves to the front of the recency chain.
CacheTouch(c, key) ==
    IF HasCachedImage(c, key)
    THEN SelectSeq(c, LAMBDA e : e.key = key) \o CacheWithout(c, key)
    ELSE c

\* Mutant: the constructor reads the cache under a key that is not there.
GetCachedMiss(c, key) == NullImage

\* getCachedImage: a null QImage when the key is absent.
GetCachedImage(c, key) ==
    IF HasCachedImage(c, key)
    THEN (CHOOSE e \in {c[i] : i \in 1..Len(c)} : e.key = key).img
    ELSE NullImage

\* --------------------------------------------------------- pending registry
Waiters(p, h) == IF h \in DOMAIN p THEN p[h] ELSE {}

\* Mutant: the iterator is used without the test against end().
FindAlways(p, h) == TRUE

\* m_pendingRequests.find(fileHash) != m_pendingRequests.end().
Find(p, h) == h \in DOMAIN p

\* Mutant: the constructor without the addPendingRequest call.
AddPendingNone(p, h, r) == p

\* addPendingRequest: m_pendingRequests[fileHash].insert(response).
AddPending(p, h, r) ==
    [k \in DOMAIN p \cup {h} |-> IF k = h THEN Waiters(p, h) \cup {r} ELSE p[k]]

\* Mutant: removePendingRequest that leaves the response in its set.
RemovePendingKeeps(p, h, r) == p

\* Mutant: removePendingRequest without the isEmpty() test.
RemovePendingLeavesEmpty(p, h, r) ==
    IF h \in DOMAIN p THEN [p EXCEPT ![h] = @ \ {r}] ELSE p

\* Mutant: removePendingRequest that erases the entry of the identity.
RemovePendingErases(p, h, r) == [k \in DOMAIN p \ {h} |-> p[k]]

\* removePendingRequest: remove, and erase the entry when it became empty.
RemovePending(p, h, r) ==
    IF h \in DOMAIN p
    THEN IF p[h] \ {r} = {}
         THEN [k \in DOMAIN p \ {h} |-> p[k]]
         ELSE [p EXCEPT ![h] = @ \ {r}]
    ELSE p

\* Mutant: the set is copied and the entry is not erased.
DrainKeeps(p, h) == p

\* notifyThumbnailReady: m_pendingRequests.erase(it).
Drain(p, h) == [k \in DOMAIN p \ {h} |-> p[k]]

\* ------------------------------------------------------- ThumbnailResponse
\* Mutant: the constructor without the test of m_filePath.
MissingSourceIgnored(o) == FALSE

\* m_filePath.isEmpty().
MissingSource(o) == ~o.hasPath

FinishWithImage(o, img) == [o EXCEPT !.image = img, !.finished = TRUE]

FinishWithError(o, err) == [o EXCEPT !.error = err, !.finished = TRUE]

\* Mutant: m_image is assigned before the null test, the error afterwards.
LoadFromPathKeepsImage(o, img, ok) ==
    IF ok THEN FinishWithImage(o, img)
    ELSE FinishWithError(FinishWithImage(o, img), "decode error")

\* Mutant: loadFromPath without the image.isNull() test.
LoadFromPathUnchecked(o, img, ok) ==
    FinishWithImage(o, IF ok THEN img ELSE NullImage)

\* loadFromPath: the reader yields an image or its error string.
LoadFromPath(o, img, ok) ==
    IF ok THEN FinishWithImage(o, img) ELSE FinishWithError(o, "decode error")

\* loadFromBase64.
LoadFromBase64(o, img, ok) ==
    IF ok THEN FinishWithImage(o, img)
    ELSE FinishWithError(o, "Failed to decode base64 image")

\* Mutant: the artifact path is tried before the placeholder payload.
HandlePathFirst(o, ev, ok) ==
    IF ev.path
    THEN LoadFromPath(o, ArtifactImage(ev.fileHash, ev.size), ok)
    ELSE IF ev.isPlaceholder /\ ev.b64
         THEN LoadFromBase64(o, PlaceholderImage(ev.fileHash, ev.size), ok)
         ELSE FinishWithError(o, "No thumbnail available")

\* handleThumbnailReady past the m_finished test.
HandleThumbnailReady(o, ev, ok) ==
    IF ev.isPlaceholder /\ ev.b64
    THEN LoadFromBase64(o, PlaceholderImage(ev.fileHash, ev.size), ok)
    ELSE IF ev.path
         THEN LoadFromPath(o, ArtifactImage(ev.fileHash, ev.size), ok)
         ELSE FinishWithError(o, "No thumbnail available")

\* Mutant: a finish that does not write the image to the cache.
CacheAfterFinishSkips(c, mx, o, key) == c

\* finishWithImage caches under "%1/%2".arg(m_fileHash, m_size).
CacheAfterFinish(c, mx, o, key) ==
    IF o.image # NullImage THEN CacheInsert(c, mx, key, o.image) ELSE c

\* ------------------------------------------------------------------- state
CtorPcs == {"getCached", "probe", "enqueue"}
CtorRunning == \E r \in ReqIds : resp[r].pc \in CtorPcs
Unborn == {r \in ReqIds : resp[r].pc = "unborn"}
KeyOf(r) == <<resp[r].fileHash, resp[r].size>>

\* History bookkeeping: a cacheImage call that turned cache c into c2 evicted
\* the keys it unlinked; new holds the key of the request it Delivered.
CacheKeys(c) == {c[i].key : i \in 1..Len(c)}
KeptAfter(kp, c, c2, new) == (kp \ (CacheKeys(c) \ CacheKeys(c2))) \cup new

\* History bookkeeping: the enqueue count of an identity restarts when its
\* waiter set is gone.
EnqOpenAfter(eo, p) == [h \in Hashes |-> IF h \in DOMAIN p THEN eo[h] ELSE 0]

Threads == 1..MaxThreads
IdleThread == [op |-> "idle", pc |-> "idle", h |-> "", set |-> {}, cur |-> 0]

NoPhoto == [fileHash |-> <<>>, filePath |-> <<>>, size |-> <<>>, form |-> "none"]
NoParse == [hashPart |-> <<>>, filePath |-> <<>>, size |-> <<>>, done |-> FALSE]

\* No PhotoModel exists.
ModelIdle ==
    /\ photoCount = 0
    /\ m_photos = <<>>
    /\ m_idToIndex = <<>>
    /\ m_nextCursor = <<>>
    /\ m_searchFilters = <<>>
    /\ m_totalCount = <<>>
    /\ m_loading = <<>>
    /\ m_hasMore = <<>>
    /\ loadedWith = <<>>
    /\ mixed = <<>>
    /\ lastCall = <<>>
    /\ loadCalls = 0

NoJob == [id |-> 0, state |-> "none"]

\* No PhotoStore exists.
StoreIdle ==
    /\ m_selectedIds = {}
    /\ modelSelectedIds = {}
    /\ m_indexing = FALSE
    /\ m_currentIndexJobId = 0
    /\ coreJob = NoJob
    /\ storeEvents = <<>>
    /\ startCalls = 0

\* No token has been built or parsed.
SubIdle ==
    /\ ModelIdle
    /\ StoreIdle
    /\ photo = NoPhoto
    /\ id = <<>>
    /\ parsed = NoParse
    /\ handed = <<>>
    /\ posted = <<>>
    /\ signals = <<>>

\* The finer-grained state while the specifications above run.
AuxIdle ==
    /\ SubIdle
    /\ uses = <<>>
    /\ hit = FALSE
    /\ thr = [t \in Threads |-> IdleThread]
    /\ m_pendingMutex = 0
    /\ m_cacheMutex = 0
    /\ calls = [r \in ReqIds |-> 0]

Init ==
    /\ handle = FALSE
    /\ m_imageCache = <<>>
    /\ maxCost = DEFAULT_CACHE_SIZE
    /\ m_pendingRequests = <<>>
    /\ resp = [r \in ReqIds |-> NoResponse]
    /\ engineJobs = [k \in Keys |-> 0]
    /\ evq = <<>>
    /\ notify = IdleNotify
    /\ enqCalls = [k \in Keys |-> 0]
    /\ enqOpen = [h \in Hashes |-> 0]
    /\ processed = 0
    /\ emitted = [r \in ReqIds |-> 0]
    /\ removals = [r \in ReqIds |-> 0]
    /\ registered = {}
    /\ dangling = FALSE
    /\ kept = {}
    /\ AuxIdle

\* ------------------------------------------------------------ caller thread
\* requestImageResponse: new ThumbnailResponse(...), up to hasCachedImage.
\* Identities and size classes are interchangeable: the first request of a
\* run names the first of each.
Request(h, hasPath, s) ==
    /\ ~CtorRunning
    /\ Unborn # {}
    /\ Unborn = ReqIds => h = "h1" /\ s = "small"
    /\ LET r == CHOOSE x \in Unborn : \A y \in Unborn : x <= y IN
       resp' = [resp EXCEPT ![r] =
                  [NoResponse EXCEPT
                     !.pc = IF HasCachedImage(m_imageCache, <<h, s>>)
                            THEN "getCached" ELSE "probe",
                     !.fileHash = h, !.hasPath = hasPath, !.size = s]]
    /\ UNCHANGED <<handle, m_imageCache, maxCost, m_pendingRequests, engineJobs,
                   evq, notify, enqCalls, enqOpen, processed, emitted,
                   removals, registered, dangling>>
    /\ UNCHANGED <<kept, aux>>

\* Constructor, cache hit: m_image = getCachedImage(cacheKey); finished().
CtorGetCached(r) ==
    /\ resp[r].pc = "getCached"
    /\ resp' = [resp EXCEPT ![r] =
                  [@ EXCEPT !.image = GetCachedImage(m_imageCache, KeyOf(r)),
                            !.finished = TRUE, !.pc = "returned"]]
    /\ m_imageCache' = CacheTouch(m_imageCache, KeyOf(r))
    /\ emitted' = [emitted EXCEPT ![r] = @ + 1]
    /\ kept' = IF GetCachedImage(m_imageCache, KeyOf(r)) # NullImage
               THEN kept \cup {KeyOf(r)} ELSE kept
    /\ UNCHANGED <<handle, maxCost, m_pendingRequests, engineJobs, evq, notify,
                   enqCalls, enqOpen, processed, removals, registered,
                   dangling>>
    /\ UNCHANGED aux

\* Constructor past the cache miss: the disk probe (getThumbnailPath is
\* empty without a handle) and loadFromPath on a hit; on a miss the
\* missing-path test and addPendingRequest.  finishWithImage and
\* finishWithError run to their end here: cacheImage, removePendingRequest,
\* emit finished().
CtorProbe(r, found, ok) ==
    /\ resp[r].pc = "probe"
    /\ found => handle
    /\ ok => found
    /\ LET o == resp[r]
           done == IF found
                   THEN LoadFromPath(o, ArtifactImage(o.fileHash, o.size), ok)
                   ELSE IF MissingSource(o)
                        THEN FinishWithError(o, "Missing file path for thumbnail request")
                        ELSE o
       IN /\ resp' = [resp EXCEPT ![r] =
                        [done EXCEPT !.pc = IF done.finished THEN "returned"
                                            ELSE "enqueue"]]
          /\ m_imageCache' = CacheAfterFinish(m_imageCache, maxCost, done, KeyOf(r))
          /\ m_pendingRequests' =
                IF done.finished
                THEN RemovePending(m_pendingRequests, o.fileHash, r)
                ELSE AddPending(m_pendingRequests, o.fileHash, r)
          /\ registered' = IF done.finished THEN registered ELSE registered \cup {r}
          /\ emitted' = IF done.finished THEN [emitted EXCEPT ![r] = @ + 1]
                        ELSE emitted
          /\ kept' = KeptAfter(kept, m_imageCache, m_imageCache',
                               IF done.image # NullImage THEN {KeyOf(r)} ELSE {})
    /\ UNCHANGED <<handle, maxCost, engineJobs, evq, notify, enqCalls, enqOpen,
                   processed, removals, dangling>>
    /\ UNCHANGED aux

\* Mutant: the batch never reaches the engine.
EnqueueDropped(jobs, k) == jobs

\* RustBridge::enqueueThumbnailsBatch: nothing happens without a handle.
EnqueueThumbnailsBatch(jobs, k) ==
    IF handle THEN [jobs EXCEPT ![k] = @ + 1] ELSE jobs

\* Constructor: RustBridge::instance()->enqueueThumbnailsBatch(requests).
CtorEnqueue(r) ==
    /\ resp[r].pc = "enqueue"
    /\ engineJobs' = EnqueueThumbnailsBatch(engineJobs, KeyOf(r))
    /\ enqCalls' = EnqueueThumbnailsBatch(enqCalls, KeyOf(r))
    /\ enqOpen' = IF handle /\ resp[r].fileHash \in DOMAIN m_pendingRequests
                  THEN [enqOpen EXCEPT ![resp[r].fileHash] = @ + 1]
                  ELSE enqOpen
    /\ resp' = [resp EXCEPT ![r].pc = "returned", ![r].enqueued = handle]
    /\ UNCHANGED <<handle, m_imageCache, maxCost, m_pendingRequests, evq,
                   notify, processed, emitted, removals, registered, dangling>>
    /\ UNCHANGED <<kept, aux>>

\* ~ThumbnailResponse: the caller released the handle it was given.
Destroy(r) ==
    /\ resp[r].pc = "returned"
    /\ ~CtorRunning
    /\ m_pendingRequests' =
          IF ~resp[r].finished
          THEN RemovePending(m_pendingRequests, resp[r].fileHash, r)
          ELSE m_pendingRequests
    /\ removals' = IF m_pendingRequests' # m_pendingRequests
                   THEN [removals EXCEPT ![r] = @ + 1] ELSE removals
    /\ enqOpen' = EnqOpenAfter(enqOpen, m_pendingRequests')
    /\ resp' = [resp EXCEPT ![r] = [NoResponse EXCEPT !.pc = "destroyed"]]
    /\ UNCHANGED <<handle, m_imageCache, maxCost, engineJobs, evq, notify,
                   enqCalls, processed, emitted, registered, dangling>>
    /\ UNCHANGED <<kept, aux>>

\* ------------------------------------------------------- generation engine
\* The engine answers an accepted entry: RustBridge::eventCallback queues
\* the event to the bridge's thread (Qt::QueuedConnection).
EngineEmit(k) ==
    /\ handle
    /\ engineJobs[k] > 0
    /\ Len(evq) < MaxQueue
    /\ engineJobs' = [engineJobs EXCEPT ![k] = @ - 1]
    /\ evq' = Append(evq, k)
    /\ UNCHANGED <<handle, m_imageCache, maxCost, m_pendingRequests, resp,
                   notify, enqCalls, enqOpen, processed, emitted, removals,
                   registered, dangling>>
    /\ UNCHANGED <<kept, aux>>

\* ------------------------------------------------------------ bridge thread
\* Mutant: the loop over the copied set ends after its first response.
RestNone(r) == {}

Rest(r) == notify.responses \ {r}

\* The loop of notifyThumbnailReady has called response r and moves on.
NextResponse(r) ==
    IF Rest(r) = {} THEN IdleNotify
    ELSE [notify EXCEPT !.pc = "loop", !.responses = Rest(r), !.cur = 0]

\* The loop is inside the finish of response r.  responses holds the drained
\* responses not called yet; the payload is kept as long as there is one.
Finishing(r) ==
    [pc |-> "fin2", responses |-> Rest(r),
     ev |-> IF Rest(r) = {} THEN NoEvent ELSE notify.ev, cur |-> r]

\* processEvent -> thumbnailReady -> notifyThumbnailReady, the critical
\* section: find, copy the set, erase, unlock.  The payload of the event is
\* read here.
NotifyStart(path, isPlaceholder, b64, useOriginal) ==
    /\ notify.pc = "idle"
    /\ evq # <<>>
    /\ evq' = Tail(evq)
    /\ processed' = processed + 1
    /\ LET h == Head(evq)[1] IN
       IF Find(m_pendingRequests, h)
       THEN /\ notify' = [pc |-> "loop", responses |-> Waiters(m_pendingRequests, h),
                          ev |-> [fileHash |-> h, size |-> Head(evq)[2],
                                  path |-> path, isPlaceholder |-> isPlaceholder,
                                  b64 |-> b64, useOriginal |-> useOriginal],
                          cur |-> 0]
            /\ m_pendingRequests' = Drain(m_pendingRequests, h)
            /\ removals' = [r \in ReqIds |->
                              IF r \in Waiters(m_pendingRequests, h)
                              THEN removals[r] + 1 ELSE removals[r]]
       ELSE /\ ~path /\ ~isPlaceholder /\ ~b64 /\ ~useOriginal
            /\ UNCHANGED <<notify, m_pendingRequests, removals>>
    /\ enqOpen' = EnqOpenAfter(enqOpen, m_pendingRequests')
    /\ UNCHANGED <<handle, m_imageCache, maxCost, resp, engineJobs, enqCalls,
                   emitted, registered, dangling>>
    /\ UNCHANGED <<kept, aux>>

\* response->handleThumbnailReady(...) on a live response, up to and
\* including cacheImage.
NotifyDeliver(r, ok) ==
    /\ notify.pc = "loop"
    /\ r \in notify.responses
    /\ resp[r].pc # "destroyed"
    /\ IF resp[r].finished
       THEN /\ notify' = NextResponse(r)
            /\ UNCHANGED <<resp, m_imageCache, kept>>
       ELSE LET done == HandleThumbnailReady(resp[r], notify.ev, ok) IN
            /\ resp' = [resp EXCEPT ![r] = done]
            /\ m_imageCache' = CacheAfterFinish(m_imageCache, maxCost, done, KeyOf(r))
            /\ kept' = KeptAfter(kept, m_imageCache, m_imageCache',
                                 IF done.image # NullImage THEN {KeyOf(r)} ELSE {})
            /\ notify' = Finishing(r)
    /\ UNCHANGED <<handle, maxCost, m_pendingRequests, engineJobs, evq,
                   enqCalls, enqOpen, processed, emitted, removals, registered,
                   dangling>>
    /\ UNCHANGED aux

\* response->handleThumbnailReady(...) on a response that was destroyed
\* after the set was copied: the members read through the dangling pointer
\* (m_finished, m_fileHash, m_size) hold any value.
NotifyDeliverDangling(r, staleFinished, ok, key) ==
    /\ notify.pc = "loop"
    /\ r \in notify.responses
    /\ resp[r].pc = "destroyed"
    /\ dangling' = TRUE
    /\ IF staleFinished
       THEN /\ ~ok /\ key = <<"h1", "small">>
            /\ notify' = NextResponse(r)
            /\ UNCHANGED m_imageCache
       ELSE /\ m_imageCache' =
                 CacheAfterFinish(m_imageCache, maxCost,
                                  HandleThumbnailReady(resp[r], notify.ev, ok), key)
            /\ notify' = Finishing(r)
    /\ kept' = KeptAfter(kept, m_imageCache, m_imageCache', {})
    /\ UNCHANGED <<handle, maxCost, m_pendingRequests, resp, engineJobs, evq,
                   enqCalls, enqOpen, processed, emitted, removals, registered>>
    /\ UNCHANGED aux

\* finishWithImage / finishWithError, second half, inside the loop:
\* removePendingRequest(m_fileHash, this); emit finished().
NotifyFinish ==
    /\ notify.pc = "fin2"
    /\ LET r == notify.cur IN
       /\ m_pendingRequests' = RemovePending(m_pendingRequests, resp[r].fileHash, r)
       /\ removals' = IF r \in Waiters(m_pendingRequests, resp[r].fileHash)
                      THEN [removals EXCEPT ![r] = @ + 1] ELSE removals
       /\ emitted' = [emitted EXCEPT ![r] = @ + 1]
       /\ dangling' = (dangling \/ resp[r].pc = "destroyed")
       /\ notify' = NextResponse(r)
    /\ enqOpen' = EnqOpenAfter(enqOpen, m_pendingRequests')
    /\ UNCHANGED <<handle, m_imageCache, maxCost, resp, engineJobs, evq,
                   enqCalls, processed, registered>>
    /\ UNCHANGED <<kept, aux>>

\* --------------------------------------------------------- cache maintenance
ClearCache ==
    /\ m_imageCache # <<>>
    /\ m_imageCache' = <<>>
    /\ kept' = {}
    /\ UNCHANGED <<handle, maxCost, m_pendingRequests, resp, engineJobs, evq,
                   notify, enqCalls, enqOpen, processed, emitted, removals,
                   registered, dangling>>
    /\ UNCHANGED aux

\* setCacheSize: setMaxCost(maxImages) trims at once.
SetCacheSize(maxImages) ==
    /\ maxImages # maxCost
    /\ maxCost' = maxImages
    /\ m_imageCache' = Trim(m_imageCache, maxImages)
    /\ kept' = {}
    /\ UNCHANGED <<handle, m_pendingRequests, resp, engineJobs, evq, notify,
                   enqCalls, enqOpen, processed, emitted, removals, registered,
                   dangling>>
    /\ UNCHANGED aux

\* ------------------------------------------------------------- RustBridge
Initialize ==
    /\ ~handle
    /\ handle' = TRUE
    /\ UNCHANGED <<m_imageCache, maxCost, m_pendingRequests, resp, engineJobs,
                   evq, notify, enqCalls, enqOpen, processed, emitted, removals,
                   registered, dangling>>
    /\ UNCHANGED <<kept, aux>>

\* shutdown: the engine is gone, and with it the entries it had accepted.
Shutdown ==
    /\ handle
    /\ handle' = FALSE
    /\ engineJobs' = [k \in Keys |-> 0]
    /\ UNCHANGED <<m_imageCache, maxCost, m_pendingRequests, resp, evq, notify,
                   enqCalls, enqOpen, processed, emitted, removals, registered,
                   dangling>>
    /\ UNCHANGED <<kept, aux>>

Next ==
    \/ \E h \in Hashes, hasPath \in BOOLEAN, s \in Sizes : Request(h, hasPath, s)
    \/ \E r \in ReqIds : CtorGetCached(r)
    \/ \E r \in ReqIds, found \in BOOLEAN, ok \in BOOLEAN : CtorProbe(r, found, ok)
    \/ \E r \in ReqIds : CtorEnqueue(r)
    \/ \E r \in ReqIds : Destroy(r)
    \/ \E k \in Keys : EngineEmit(k)
    \/ \E path \in BOOLEAN, isPlaceholder \in BOOLEAN, b64 \in BOOLEAN,
          useOriginal \in BOOLEAN : NotifyStart(path, isPlaceholder, b64, useOriginal)
    \/ \E r \in ReqIds, ok \in BOOLEAN : NotifyDeliver(r, ok)
    \/ \E r \in ReqIds, staleFinished \in BOOLEAN, ok \in BOOLEAN, key \in Keys :
          NotifyDeliverDangling(r, staleFinished, ok, key)
    \/ NotifyFinish
    \/ ClearCache
    \/ \E maxImages \in 0..MaxCacheSize : SetCacheSize(maxImages)
    \/ Initialize
    \/ Shutdown

Spec == Init /\ [][Next]_vars

\* The engine is initialised and stays so; the cache is left to the requests
\* (nothing in the repository calls clearCache or setCacheSize).
InitLive ==
    /\ handle = TRUE
    /\ m_imageCache = <<>>
    /\ maxCost = DEFAULT_CACHE_SIZE
    /\ m_pendingRequests = <<>>
    /\ resp = [r \in ReqIds |-> NoResponse]
    /\ engineJobs = [k \in Keys |-> 0]
    /\ evq = <<>>
    /\ notify = IdleNotify
    /\ enqCalls = [k \in Keys |-> 0]
    /\ enqOpen = [h \in Hashes |-> 0]
    /\ processed = 0
    /\ emitted = [r \in ReqIds |-> 0]
    /\ removals = [r \in ReqIds |-> 0]
    /\ registered = {}
    /\ dangling = FALSE
    /\ kept = {}
    /\ AuxIdle

Constructor ==
    \/ \E r \in ReqIds : CtorGetCached(r)
    \/ \E r \in ReqIds, found \in BOOLEAN, ok \in BOOLEAN : CtorProbe(r, found, ok)
    \/ \E r \in ReqIds : CtorEnqueue(r)

Engine == \E k \in Keys : EngineEmit(k)

Router ==
    \/ \E path \in BOOLEAN, isPlaceholder \in BOOLEAN, b64 \in BOOLEAN,
          useOriginal \in BOOLEAN : NotifyStart(path, isPlaceholder, b64, useOriginal)
    \/ \E r \in ReqIds, ok \in BOOLEAN : NotifyDeliver(r, ok)
    \/ \E r \in ReqIds, staleFinished \in BOOLEAN, ok \in BOOLEAN, key \in Keys :
          NotifyDeliverDangling(r, staleFinished, ok, key)
    \/ NotifyFinish

NextLive ==
    \/ \E h \in Hashes, hasPath \in BOOLEAN, s \in Sizes : Request(h, hasPath, s)
    \/ \E r \in ReqIds : Destroy(r)
    \/ Constructor
    \/ Engine
    \/ Router

\* A started constructor runs to its end, the engine answers every entry it
\* accepted, and the bridge thread's event loop takes every queued event.
LiveSpec ==
    InitLive /\ [][NextLive]_vars
    /\ WF_vars(Constructor) /\ WF_vars(Engine) /\ WF_vars(Router)

\* ------------------------------------------------- events nobody asked for
\* RustBridge::eventCallback takes whatever thumbnail-ready event the engine
\* sends: the identity it names need not be one a request was enqueued for.
EngineSpurious(k) ==
    /\ handle
    /\ Len(evq) < MaxQueue
    /\ processed + Len(evq) < MaxEvents
    /\ evq' = Append(evq, k)
    /\ UNCHANGED <<handle, m_imageCache, maxCost, m_pendingRequests, resp,
                   engineJobs, notify, enqCalls, enqOpen, processed, emitted,
                   removals, registered, dangling>>
    /\ UNCHANGED <<kept, aux>>

EventNext ==
    \/ NextLive
    \/ \E k \in Keys : EngineSpurious(k)

\* The engine initialised, as in LiveSpec, and sending events of its own.
EventSpec == InitLive /\ [][EventNext]_vars

\* ------------------------------------------------- the provider, lock by lock
\* Every call into the provider as the steps of the thread making it: a
\* QMutexLocker is a step that takes the mutex together with the statements
\* it guards, and a step that gives it back.  Any thread makes any call:
\* requestImageResponse and ~ThumbnailResponse come from the image loader's
\* threads, notifyThumbnailReady from whichever thread emits thumbnailReady,
\* clearCache and setCacheSize from any caller of the provider.
lockFrame == <<handle, engineJobs, evq, notify, enqCalls, enqOpen, processed,
               emitted, removals, registered, dangling, kept, uses, hit, sub>>

Idle(t) == thr[t] = IdleThread
CachePcs == {"has", "get", "cache", "clr", "rsz"}       \* before m_cacheMutex
PendingPcs == {"rm", "add", "lock"}                     \* before m_pendingMutex
At(t, op, pc) == thr[t].op = op /\ thr[t].pc = pc
Goto(t, pc) == thr' = [thr EXCEPT ![t].pc = pc]

\* Mutant: a lock() that returns while another thread holds the mutex.
FreeAlways(m) == TRUE

\* QMutex::lock returns once no thread holds the mutex.
Free(m) == m = 0

LockInit ==
    /\ handle = TRUE
    /\ m_imageCache = <<>>
    /\ maxCost = DEFAULT_CACHE_SIZE
    /\ m_pendingRequests = <<>>
    /\ resp = [r \in ReqIds |-> NoResponse]
    /\ engineJobs = [k \in Keys |-> 0]
    /\ evq = <<>>
    /\ notify = IdleNotify
    /\ enqCalls = [k \in Keys |-> 0]
    /\ enqOpen = [h \in Hashes |-> 0]
    /\ processed = 0
    /\ emitted = [r \in ReqIds |-> 0]
    /\ removals = [r \in ReqIds |-> 0]
    /\ registered = {}
    /\ dangling = FALSE
    /\ kept = {}
    /\ AuxIdle
\* requestImageResponse: new ThumbnailResponse(...), before hasCachedImage.
LCtor(t, h, hasPath, s) ==
    /\ Idle(t)
    /\ Unborn # {}
    /\ LET r == CHOOSE x \in Unborn : \A y \in Unborn : x <= y IN
       /\ resp' = [resp EXCEPT ![r] =
                     [NoResponse EXCEPT !.pc = "ctor", !.fileHash = h,
                                        !.hasPath = hasPath, !.size = s]]
       /\ thr' = [thr EXCEPT ![t] =
                    [IdleThread EXCEPT !.op = "ctor", !.pc = "has", !.cur = r]]
    /\ UNCHANGED <<m_imageCache, maxCost, m_pendingRequests, m_pendingMutex,
                   m_cacheMutex, calls, lockFrame>>

\* hasCachedImage: QMutexLocker locker(&m_cacheMutex); contains(key).
LHasCached(t) ==
    /\ At(t, "ctor", "has")
    /\ Free(m_cacheMutex)
    /\ m_cacheMutex' = t
    /\ Goto(t, IF HasCachedImage(m_imageCache, KeyOf(thr[t].cur))
               THEN "hasHit" ELSE "hasMiss")
    /\ UNCHANGED <<m_imageCache, maxCost, m_pendingRequests, resp,
                   m_pendingMutex, calls, lockFrame>>

\* getCachedImage: QMutexLocker locker(&m_cacheMutex); object(key).
LGetCached(t) ==
    /\ At(t, "ctor", "get")
    /\ Free(m_cacheMutex)
    /\ m_cacheMutex' = t
    /\ m_imageCache' = CacheTouch(m_imageCache, KeyOf(thr[t].cur))
    /\ Goto(t, "getU")
    /\ UNCHANGED <<maxCost, m_pendingRequests, resp, m_pendingMutex, calls,
                   lockFrame>>

\* cacheImage: QMutexLocker locker(&m_cacheMutex); insert(key, image).  The
\* key and the image of a response destroyed in the meantime are whatever
\* the freed object holds.
LCacheImage(t, key) ==
    /\ thr[t].pc = "cache"
    /\ Free(m_cacheMutex)
    /\ m_cacheMutex' = t
    /\ LET r == thr[t].cur IN
       IF resp[r].pc = "destroyed"
       THEN m_imageCache' = CacheInsert(m_imageCache, maxCost, key,
                                        ArtifactImage(key[1], key[2]))
       ELSE /\ key = KeyOf(r)
            /\ m_imageCache' = CacheInsert(m_imageCache, maxCost, key,
                                           resp[r].image)
    /\ Goto(t, "cacheU")
    /\ UNCHANGED <<maxCost, m_pendingRequests, resp, m_pendingMutex, calls,
                   lockFrame>>

\* clearCache: QMutexLocker locker(&m_cacheMutex); clear().
LClearCache(t) ==
    /\ Idle(t)
    /\ Free(m_cacheMutex)
    /\ m_cacheMutex' = t
    /\ m_imageCache' = <<>>
    /\ thr' = [thr EXCEPT ![t] = [IdleThread EXCEPT !.op = "clear", !.pc = "clrU"]]
    /\ UNCHANGED <<maxCost, m_pendingRequests, resp, m_pendingMutex, calls,
                   lockFrame>>

\* setCacheSize: QMutexLocker locker(&m_cacheMutex); setMaxCost(maxImages).
LSetCacheSize(t, maxImages) ==
    /\ Idle(t)
    /\ Free(m_cacheMutex)
    /\ m_cacheMutex' = t
    /\ maxCost' = maxImages
    /\ m_imageCache' = Trim(m_imageCache, maxImages)
    /\ thr' = [thr EXCEPT ![t] = [IdleThread EXCEPT !.op = "resize", !.pc = "rszU"]]
    /\ UNCHANGED <<m_pendingRequests, resp, m_pendingMutex, calls, lockFrame>>

\* The rest of a finish after removePendingRequest, or of a constructor
\* after its last statement: emit finished(), return to the caller.
Returned(t) ==
    IF thr[t].op = "notify" /\ thr[t].set # {}
    THEN [thr[t] EXCEPT !.pc = "loop", !.cur = 0]
    ELSE IdleThread

\* ~QMutexLocker of a cache operation, and the statements after it up to the
\* next lock: the constructor's cache-hit return, the disk probe, the
\* removePendingRequest of finishWithImage.
LUnlockCache(t) ==
    /\ m_cacheMutex = t
    /\ m_cacheMutex' = 0
    /\ LET r == thr[t].cur IN
       CASE thr[t].pc = "hasHit" -> Goto(t, "get") /\ UNCHANGED resp
         [] thr[t].pc = "hasMiss" -> Goto(t, "probe") /\ UNCHANGED resp
         [] thr[t].pc = "getU" ->
              /\ resp' = [resp EXCEPT
                           ![r].image = GetCachedImage(m_imageCache, KeyOf(r)),
                           ![r].finished = TRUE, ![r].pc = "returned"]
              /\ thr' = [thr EXCEPT ![t] = IdleThread]
         [] thr[t].pc = "cacheU" -> Goto(t, "rm") /\ UNCHANGED resp
         [] OTHER -> thr' = [thr EXCEPT ![t] = IdleThread] /\ UNCHANGED resp
    /\ UNCHANGED <<m_imageCache, maxCost, m_pendingRequests, m_pendingMutex,
                   calls, lockFrame>>

\* Constructor between the cache miss and the next lock: the disk probe with
\* loadFromPath up to m_finished = true, or the missing-path test.
LProbe(t, found, ok) ==
    /\ At(t, "ctor", "probe")
    /\ found => handle
    /\ ok => found
    /\ LET r == thr[t].cur
           o == resp[r]
           done == IF found
                   THEN LoadFromPath(o, ArtifactImage(o.fileHash, o.size), ok)
                   ELSE IF MissingSource(o)
                        THEN FinishWithError(o, "Missing file path for thumbnail request")
                        ELSE o
       IN /\ resp' = [resp EXCEPT ![r] = done]
          /\ Goto(t, IF ~done.finished THEN "add"
                     ELSE IF done.image # NullImage THEN "cache" ELSE "rm")
    /\ UNCHANGED <<m_imageCache, maxCost, m_pendingRequests, m_pendingMutex,
                   m_cacheMutex, calls, lockFrame>>

\* addPendingRequest: QMutexLocker locker(&m_pendingMutex); insert.
LAddPending(t) ==
    /\ At(t, "ctor", "add")
    /\ Free(m_pendingMutex)
    /\ m_pendingMutex' = t
    /\ m_pendingRequests' =
          AddPending(m_pendingRequests, resp[thr[t].cur].fileHash, thr[t].cur)
    /\ Goto(t, "addU")
    /\ UNCHANGED <<m_imageCache, maxCost, resp, m_cacheMutex, calls, lockFrame>>

\* removePendingRequest: QMutexLocker locker(&m_pendingMutex); find, remove,
\* erase the entry when empty.
LRemovePending(t) ==
    /\ thr[t].pc = "rm"
    /\ Free(m_pendingMutex)
    /\ m_pendingMutex' = t
    /\ m_pendingRequests' =
          RemovePending(m_pendingRequests, resp[thr[t].cur].fileHash, thr[t].cur)
    /\ Goto(t, "rmU")
    /\ UNCHANGED <<m_imageCache, maxCost, resp, m_cacheMutex, calls, lockFrame>>

\* ~ThumbnailResponse: if (!m_finished) removePendingRequest(...).
LDtor(t, r) ==
    /\ Idle(t)
    /\ resp[r].pc = "returned"
    /\ IF resp[r].finished
       THEN /\ resp' = [resp EXCEPT ![r] = [NoResponse EXCEPT !.pc = "destroyed"]]
            /\ UNCHANGED thr
       ELSE /\ resp' = [resp EXCEPT ![r].pc = "dying"]
            /\ thr' = [thr EXCEPT ![t] =
                         [IdleThread EXCEPT !.op = "dtor", !.pc = "rm", !.cur = r]]
    /\ UNCHANGED <<m_imageCache, maxCost, m_pendingRequests, m_pendingMutex,
                   m_cacheMutex, calls, lockFrame>>

\* A thumbnailReady emission reaches the provider's lambda on thread t.
LNotify(t, h) ==
    /\ Idle(t)
    /\ thr' = [thr EXCEPT ![t] =
                 [IdleThread EXCEPT !.op = "notify", !.pc = "lock", !.h = h]]
    /\ UNCHANGED <<m_imageCache, maxCost, m_pendingRequests, resp,
                   m_pendingMutex, m_cacheMutex, calls, lockFrame>>

\* notifyThumbnailReady: QMutexLocker locker(&m_pendingMutex); find;
\* responses = *it.
LNotifyLock(t) ==
    /\ At(t, "notify", "lock")
    /\ Free(m_pendingMutex)
    /\ m_pendingMutex' = t
    /\ thr' = IF Find(m_pendingRequests, thr[t].h)
              THEN [thr EXCEPT ![t].pc = "erase",
                               ![t].set = Waiters(m_pendingRequests, thr[t].h)]
              ELSE [thr EXCEPT ![t].pc = "ret"]
    /\ UNCHANGED <<m_imageCache, maxCost, m_pendingRequests, resp, m_cacheMutex,
                   calls, lockFrame>>

\* notifyThumbnailReady: m_pendingRequests.erase(it).
LNotifyErase(t) ==
    /\ At(t, "notify", "erase")
    /\ m_pendingRequests' = Drain(m_pendingRequests, thr[t].h)
    /\ Goto(t, "unlock")
    /\ UNCHANGED <<m_imageCache, maxCost, resp, m_pendingMutex, m_cacheMutex,
                   calls, lockFrame>>

\* Mutant: the loop is entered with the locker still locked.
LockerUnlockMissing(t) == t

\* The holder of m_pendingMutex after locker.unlock().
LockerUnlock(t) == 0

\* notifyThumbnailReady: locker.unlock() before the loop.
LNotifyUnlock(t) ==
    /\ At(t, "notify", "unlock")
    /\ m_pendingMutex' = LockerUnlock(t)
    /\ Goto(t, "loop")
    /\ UNCHANGED <<m_imageCache, maxCost, m_pendingRequests, resp, m_cacheMutex,
                   calls, lockFrame>>

\* The loop calls response->handleThumbnailReady(...) up to the first lock
\* inside it; the payload of the event is read here.  A destroyed response
\* is called all the same (its m_finished is whatever the freed object holds).
LCall(t, r, staleFinished, ev, ok) ==
    /\ At(t, "notify", "loop")
    /\ r \in thr[t].set
    /\ ev.fileHash = thr[t].h
    /\ calls' = [calls EXCEPT ![r] = @ + 1]
    /\ LET rest == thr[t].set \ {r}
           skip == IF rest = {} THEN IdleThread ELSE [thr[t] EXCEPT !.set = rest]
           done == HandleThumbnailReady(resp[r], ev, ok)
           into(pc) == [thr[t] EXCEPT !.set = rest, !.cur = r, !.pc = pc]
       IN IF resp[r].pc = "destroyed"
          THEN /\ UNCHANGED resp
               /\ thr' = [thr EXCEPT ![t] =
                            IF staleFinished THEN skip
                            ELSE into(IF done.image # NullImage THEN "cache" ELSE "rm")]
          ELSE /\ ~staleFinished
               /\ IF resp[r].finished
                  THEN UNCHANGED resp /\ thr' = [thr EXCEPT ![t] = skip]
                  ELSE /\ resp' = [resp EXCEPT ![r] = done]
                       /\ thr' = [thr EXCEPT ![t] =
                                    into(IF done.image # NullImage THEN "cache" ELSE "rm")]
    /\ UNCHANGED <<m_imageCache, maxCost, m_pendingRequests, m_pendingMutex,
                   m_cacheMutex, lockFrame>>

\* ~QMutexLocker of a registry operation, and the statements after it up to
\* the next lock: emit finished() and the return of the finish, of the
\* destructor or of notifyThumbnailReady.
LUnlockPending(t) ==
    /\ m_pendingMutex = t
    /\ thr[t].pc \in {"rmU", "addU", "ret"}
    /\ m_pendingMutex' = 0
    /\ LET r == thr[t].cur IN
       CASE thr[t].pc = "addU" -> Goto(t, "enq") /\ UNCHANGED resp
         [] thr[t].pc = "ret" -> thr' = [thr EXCEPT ![t] = IdleThread] /\ UNCHANGED resp
         [] thr[t].pc = "rmU" ->
              /\ thr' = [thr EXCEPT ![t] = Returned(t)]
              /\ resp' = IF thr[t].op = "ctor"
                         THEN [resp EXCEPT ![r].pc = "returned"]
                         ELSE IF thr[t].op = "dtor"
                              THEN [resp EXCEPT ![r] =
                                      [NoResponse EXCEPT !.pc = "destroyed"]]
                              ELSE resp
    /\ UNCHANGED <<m_imageCache, maxCost, m_pendingRequests, m_cacheMutex, calls,
                   lockFrame>>

\* Constructor: enqueueThumbnailsBatch(requests); return.
LEnqueue(t) ==
    /\ At(t, "ctor", "enq")
    /\ resp' = [resp EXCEPT ![thr[t].cur].pc = "returned",
                            ![thr[t].cur].enqueued = handle]
    /\ thr' = [thr EXCEPT ![t] = IdleThread]
    /\ UNCHANGED <<m_imageCache, maxCost, m_pendingRequests, m_pendingMutex,
                   m_cacheMutex, calls, lockFrame>>

\* The events of this specification name an artifact path and the first
\* size class (what a payload selects is decided in handleThumbnailReady
\* and takes no lock).
Events ==
    [fileHash : Hashes, size : {"small"}, path : {TRUE}, isPlaceholder : {FALSE},
     b64 : {FALSE}, useOriginal : {FALSE}]

LockNext ==
    \/ \E t \in Threads, h \in Hashes, hasPath \in BOOLEAN, s \in Sizes :
          LCtor(t, h, hasPath, s)
    \/ \E t \in Threads : LHasCached(t)
    \/ \E t \in Threads : LGetCached(t)
    \/ \E t \in Threads, key \in Keys : LCacheImage(t, key)
    \/ \E t \in Threads : LClearCache(t)
    \/ \E t \in Threads, maxImages \in {MaxCacheSize} : LSetCacheSize(t, maxImages)
    \/ \E t \in Threads : LUnlockCache(t)
    \/ \E t \in Threads, found \in BOOLEAN, ok \in BOOLEAN : LProbe(t, found, ok)
    \/ \E t \in Threads : LAddPending(t)
    \/ \E t \in Threads : LRemovePending(t)
    \/ \E t \in Threads, r \in ReqIds : LDtor(t, r)
    \/ \E t \in Threads, h \in Hashes : LNotify(t, h)
    \/ \E t \in Threads : LNotifyLock(t)
    \/ \E t \in Threads : LNotifyErase(t)
    \/ \E t \in Threads : LNotifyUnlock(t)
    \/ \E t \in Threads, r \in ReqIds, staleFinished \in BOOLEAN, ev \in Events,
          ok \in BOOLEAN : LCall(t, r, staleFinished, ev, ok)
    \/ \E t \in Threads : LUnlockPending(t)
    \/ \E t \in Threads : LEnqueue(t)

LockSpec == LockInit /\ [][LockNext]_vars

\* ---------------------------------------------------- the cache by itself
\* The provider's cache operations from an empty cache of a given capacity:
\* any order of cacheImage, getCachedImage and hasCachedImage calls.
UsesAfter(u, key) == <<key>> \o SelectSeq(u, LAMBDA k : k # key)

CacheInit ==
    /\ handle = TRUE
    /\ m_imageCache = <<>>
    /\ maxCost \in 1..MaxCapacity
    /\ m_pendingRequests = <<>>
    /\ resp = [r \in ReqIds |-> NoResponse]
    /\ engineJobs = [k \in Keys |-> 0]
    /\ evq = <<>>
    /\ notify = IdleNotify
    /\ enqCalls = [k \in Keys |-> 0]
    /\ enqOpen = [h \in Hashes |-> 0]
    /\ processed = 0
    /\ emitted = [r \in ReqIds |-> 0]
    /\ removals = [r \in ReqIds |-> 0]
    /\ registered = {}
    /\ dangling = FALSE
    /\ kept = {}
    /\ AuxIdle

\* cacheImage(key, image).
CacheImage(key) ==
    /\ m_imageCache' = CacheInsert(m_imageCache, maxCost, key,
                                   ArtifactImage(key[1], key[2]))
    /\ uses' = UsesAfter(uses, key)
    /\ UNCHANGED <<handle, maxCost, m_pendingRequests, resp, engineJobs, evq,
                   notify, enqCalls, enqOpen, processed, emitted, removals,
                   registered, dangling, kept, hit, thr, m_pendingMutex,
                   m_cacheMutex, calls, sub>>

\* getCachedImage(key): a use of the key when it is cached.
GetCached(key) ==
    /\ m_imageCache' = CacheTouch(m_imageCache, key)
    /\ uses' = IF GetCachedImage(m_imageCache, key) # NullImage
               THEN UsesAfter(uses, key) ELSE uses
    /\ hit' = (GetCachedImage(m_imageCache, key) # NullImage)
    /\ UNCHANGED <<handle, maxCost, m_pendingRequests, resp, engineJobs, evq,
                   notify, enqCalls, enqOpen, processed, emitted, removals,
                   registered, dangling, kept, thr, m_pendingMutex,
                   m_cacheMutex, calls, sub>>

\* hasCachedImage(key).
HasCached(key) ==
    /\ hit' = HasCachedImage(m_imageCache, key)
    /\ UNCHANGED <<handle, m_imageCache, maxCost, m_pendingRequests, resp,
                   engineJobs, evq, notify, enqCalls, enqOpen, processed,
                   emitted, removals, registered, dangling, kept, uses, thr,
                   m_pendingMutex, m_cacheMutex, calls, sub>>

CacheNext ==
    \/ \E key \in Keys : CacheImage(key)
    \/ \E key \in Keys : GetCached(key)
    \/ \E key \in Keys : HasCached(key)

CacheSpec == CacheInit /\ [][CacheNext]_vars

\* ------------------------------------------------------------------ claims
Delivered(r) == resp[r].finished /\ resp[r].image # NullImage
Failed(r) == resp[r].finished /\ resp[r].error # ""
IsWaiter(r) == \E h \in DOMAIN m_pendingRequests : r \in m_pendingRequests[h]
Quiet == notify = IdleNotify /\ evq = <<>> /\ \A k \in Keys : engineJobs[k] = 0

\* C1: while the waiter set of an identity is open, at most one generation
\* enqueue is issued for that identity, however many requests join the set.
C1_CoalescingByIdentity == \A h \in Hashes : enqOpen[h] <= 1

\* C2: as long as no completion event has been processed, the engine's
\* enqueue has been invoked at most once for each (identity, size) pair.
C2_CoalescingPerKey == processed = 0 => \A k \in Keys : enqCalls[k] <= 1

\* C3: finished() is emitted at most once per request, no request holds both
\* an image and an error, and the outcome of a finished request never changes
\* afterwards.
C3_AtMostOnceTerminal ==
    /\ [](\A r \in ReqIds : emitted[r] <= 1 /\ ~(Delivered(r) /\ Failed(r)))
    /\ [][\A r \in ReqIds :
            resp[r].finished /\ resp'[r].pc # "destroyed"
            => /\ resp'[r].finished
               /\ resp'[r].image = resp[r].image
               /\ resp'[r].error = resp[r].error
               /\ emitted'[r] <= 1]_vars

\* Two requests of one identity and different sizes hold the image of the
\* same event (fan-out), and the event of the other enqueue, a duplicate for
\* that identity, has been processed as well.
C3_Witness ==
    /\ Quiet
    /\ processed = 2
    /\ \A r \in {1, 2} : /\ r \in registered
                         /\ Delivered(r)
                         /\ resp[r].enqueued
                         /\ emitted[r] = 1
    /\ resp[1].fileHash = resp[2].fileHash
    /\ resp[1].size # resp[2].size
    /\ resp[1].image = resp[2].image

\* C4: with the engine initialised, answering every accepted entry, and the
\* event loop running, every request is eventually finished (Delivered or
\* Failed) unless its handle is released first.
C4_EventualDelivery ==
    \A r \in ReqIds :
        (resp[r].pc \notin {"unborn", "destroyed"})
            ~> (resp[r].finished \/ resp[r].pc = "destroyed")

\* A request that waited for generation has been finished by an event.
C4_Witness ==
    \E r \in ReqIds : r \in registered /\ resp[r].finished /\ emitted[r] = 1

\* C5: a request whose enqueue found no engine handle is finished when its
\* constructor returns and is not left in the registry.
C5_EngineUnavailableFails ==
    \A r \in registered :
        resp[r].pc = "returned" /\ ~resp[r].enqueued
        => resp[r].finished /\ ~IsWaiter(r)

\* C6: handleThumbnailReady is never invoked on a request whose destructor
\* has run.
C6_NoDeliveryAfterDestroy == ~dangling

\* C7: a destroyed request is in no waiter set, every entry of the registry
\* has a live waiter, and a completion event for an identity without entry
\* changes neither registry nor cache nor any request.
C7_NoLeakOnCancel ==
    /\ [](\A h \in DOMAIN m_pendingRequests :
            /\ \A r \in m_pendingRequests[h] : resp[r].pc # "destroyed"
            /\ m_pendingRequests[h] # {})
    /\ [][(/\ notify.pc = "idle"
           /\ evq # <<>>
           /\ evq' = Tail(evq)
           /\ Head(evq)[1] \notin DOMAIN m_pendingRequests)
          => UNCHANGED <<m_pendingRequests, m_imageCache, resp, emitted, notify>>]_vars

\* The only request was cancelled while it waited, and the completion event
\* of its enqueue has been processed since.
C7_Witness ==
    /\ Quiet
    /\ processed = 1
    /\ resp[1].pc = "destroyed"
    /\ resp[2].pc = "unborn"
    /\ 1 \in registered
    /\ removals[1] = 1
    /\ emitted[1] = 0
    /\ ~dangling

\* C8: a request is in the registry exactly if it has issued a generation
\* enqueue and has no result yet.  Stated for the requests whose constructor
\* has returned and which no running notification holds in its copy of a
\* drained set, that is outside the two windows the claim lists.
C8_RegistrationInvariant ==
    \A r \in ReqIds :
        resp[r].pc = "returned" /\ r \notin notify.responses
        => (IsWaiter(r) <=> resp[r].enqueued /\ ~resp[r].finished)

\* C9: no request is removed from the registry twice, every finished or
\* destroyed request that was registered has been removed once, and the
\* members of a waiter set are live, unfinished requests of that identity.
C9_RemovedExactlyOnce ==
    /\ \A r \in ReqIds : removals[r] <= 1
    /\ \A r \in registered :
          resp[r].finished \/ resp[r].pc = "destroyed" => removals[r] = 1
    /\ \A h \in DOMAIN m_pendingRequests : \A r \in m_pendingRequests[h] :
          /\ resp[r].pc \notin {"unborn", "destroyed"}
          /\ ~resp[r].finished
          /\ resp[r].fileHash = h

\* One request was drained by a completion event and finished, the other was
\* removed by its destructor.
C9_Witness ==
    /\ \E r \in registered : resp[r].finished /\ removals[r] = 1
    /\ \E r \in registered :
          resp[r].pc = "destroyed" /\ removals[r] = 1 /\ emitted[r] = 0
    /\ ~dangling
    /\ m_pendingRequests = <<>>

\* C10: the image cache never holds more entries than its capacity.
C10_CacheBound == Len(m_imageCache) <= maxCost

\* Two requests were Delivered under different keys while the capacity was
\* shrunk to one entry, which the cache holds.
C10_Witness ==
    /\ maxCost = 1
    /\ Len(m_imageCache) = 1
    /\ \A r \in ReqIds : Delivered(r)
    /\ KeyOf(1) # KeyOf(2)

\* C11: from an empty cache of capacity c >= 1, the insertion of the (c+1)-th
\* distinct key leaves exactly c entries, and the one key missing is the
\* least recently used one, a use being a cacheImage or a getCachedImage that
\* found the key (hasCachedImage is no use).
C11_LruEviction ==
    [][Len(uses) = maxCost /\ Len(uses') = maxCost + 1
       => /\ Len(m_imageCache') = maxCost
          /\ CacheKeys(m_imageCache') =
                {uses'[i] : i \in 1..maxCost + 1} \ {uses[Len(uses)]}]_vars

\* Capacity 2 and three keys used: the two used last are cached, the least
\* recently used one is not, and the last getCachedImage or hasCachedImage
\* call found its key.
C11_Witness ==
    /\ maxCost = 2
    /\ Len(uses) = 3
    /\ CacheKeys(m_imageCache) = {<<"h1", "small">>, <<"h2", "small">>}
    /\ uses = << <<"h2", "small">>, <<"h1", "small">>, <<"h1", "large">> >>
    /\ hit

\* A step of the constructor of request r whose key was Delivered before,
\* with no clearCache, setCacheSize or eviction of the key since: the cache
\* check hits, and the constructor returns with the cached image without
\* disk probe, registration or enqueue.
CacheHitStep(r) ==
    /\ (/\ resp[r].pc = "unborn"
        /\ resp'[r].pc \in CtorPcs
        /\ <<resp'[r].fileHash, resp'[r].size>> \in kept)
       => resp'[r].pc = "getCached"
    /\ (/\ resp[r].pc = "getCached"
        /\ resp'[r].pc # "getCached"
        /\ KeyOf(r) \in kept)
       => /\ resp'[r].pc = "returned"
          /\ resp'[r].finished
          /\ resp'[r].image # NullImage
          /\ resp'[r].image = GetCachedImage(m_imageCache, KeyOf(r))
          /\ r \notin registered'
          /\ UNCHANGED <<m_pendingRequests, enqCalls, engineJobs>>

\* C12, as the claim states it: once a request for (identity, size) has been
\* Delivered and no clearCache, setCacheSize or eviction intervened, a second
\* request for the same pair finishes in its constructor with the cached
\* image and performs no disk probe, no registration and no enqueue.
C12_CacheHitAnyCapacity == [][\A r \in ReqIds : CacheHitStep(r)]_vars

\* C12, amended: the same, provided the capacity of the cache is at least 1
\* (a cache of capacity 0 keeps nothing of what is Delivered).
C12_IdempotentCacheHit ==
    [][maxCost >= 1 => \A r \in ReqIds : CacheHitStep(r)]_vars

\* The second request for a key hit the cache the first request filled, and
\* returned the image the first request holds.
C12_Witness ==
    /\ KeyOf(1) = KeyOf(2)
    /\ 1 \in registered
    /\ Delivered(1) /\ Delivered(2)
    /\ resp[1].image = resp[2].image
    /\ resp[2].pc = "returned"
    /\ 2 \notin registered
    /\ enqCalls[KeyOf(2)] = 1
    /\ KeyOf(2) \in kept
    /\ maxCost = DEFAULT_CACHE_SIZE

\* A step by which request r becomes Delivered leaves the image it holds in
\* the cache under the key of r.
DeliveredStep(r) ==
    (/\ ~(resp[r].finished /\ resp[r].image # NullImage)
     /\ resp'[r].finished /\ resp'[r].image # NullImage)
    => /\ HasCachedImage(m_imageCache', <<resp'[r].fileHash, resp'[r].size>>)
       /\ GetCachedImage(m_imageCache', <<resp'[r].fileHash, resp'[r].size>>)
             = resp'[r].image

\* C13, as the claim states it: immediately after a request reaches Delivered,
\* by the cache-hit, disk-hit or generation path, the cache holds the image
\* under the key of the request.
C13_DeliveredIsCached == [][\A r \in ReqIds : DeliveredStep(r)]_vars

\* C13, amended: the same, provided the capacity of the cache is at least 1.
C13_DeliveredPopulatesCache ==
    [][maxCost >= 1 => \A r \in ReqIds : DeliveredStep(r)]_vars

\* A request Delivered by a completion event, whose image the cache holds
\* under the key of the request, which is not the key the event named.
C13_Witness ==
    \E r \in registered :
        /\ Delivered(r)
        /\ maxCost >= 1
        /\ resp[r].image.size # resp[r].size
        /\ GetCachedImage(m_imageCache, KeyOf(r)) = resp[r].image

\* The requests of identity h that wait for a result, whatever their size.
WaitingFor(h) ==
    {r \in registered : /\ resp[r].pc \notin {"unborn", "destroyed"}
                        /\ ~resp[r].finished
                        /\ resp[r].fileHash = h}

\* C14: the completion event of identity h drains every request waiting for
\* h, whatever size it asked for and whatever size the event names; each of
\* them is handed the payload of that one event and finishes with it, so a
\* registered request that is neither in the registry nor in a running
\* notification is finished.
C14_FanOutByIdentity ==
    /\ [](\A r \in registered :
            (/\ resp[r].pc # "destroyed"
             /\ ~IsWaiter(r)
             /\ r \notin notify.responses)
            => resp[r].finished)
    /\ [][/\ (notify.pc = "idle" /\ notify'.pc = "loop")
             => notify'.responses = WaitingFor(notify'.ev.fileHash)
          /\ (notify.pc # "idle" /\ notify'.responses # {})
             => notify'.ev = notify.ev
          /\ \A r \in notify.responses :
                (~resp[r].finished /\ resp'[r].finished)
                => \E ok \in BOOLEAN :
                      resp'[r] = HandleThumbnailReady(resp[r], notify.ev, ok)]_vars

\* One completion event was processed; it resolved two requests of one
\* identity and different sizes with the same image.
C14_Witness ==
    /\ processed = 1
    /\ notify = IdleNotify
    /\ registered = {1, 2}
    /\ resp[1].fileHash = resp[2].fileHash
    /\ resp[1].size # resp[2].size
    /\ Delivered(1) /\ Delivered(2)
    /\ resp[1].image = resp[2].image
    /\ emitted[1] = 1 /\ emitted[2] = 1

\* C15: processing a completion event for an identity that has no waiter
\* set (never requested, every waiter cancelled, or drained by an earlier
\* event) changes neither the registry nor the cache nor any request, and
\* calls no request.
C15_UnmatchedEventNoOp ==
    [][(/\ processed' = processed + 1
        /\ Head(evq)[1] \notin DOMAIN m_pendingRequests)
       => /\ UNCHANGED <<m_pendingRequests, m_imageCache, resp, kept>>
          /\ UNCHANGED <<notify, emitted, removals, registered, dangling>>]_vars

\* Three events were processed: the two the requests enqueued and one the
\* engine sent unasked.  One of them Delivered request 1; request 2 was
\* cancelled while it waited, so the other two found no waiter set.
C15_Witness ==
    /\ processed = 3
    /\ Quiet
    /\ registered = {1, 2}
    /\ resp[1].fileHash = "h1"
    /\ Delivered(1)
    /\ emitted[1] = 1
    /\ resp[2].pc = "destroyed"
    /\ emitted[2] = 0
    /\ m_pendingRequests = <<>>
    /\ ~dangling

\* C16: two notifyThumbnailReady calls may run at the same time, for the same
\* identity too; the set is copied and erased under one hold of
\* m_pendingMutex, so no response is in the copies of two calls, a response
\* in a copy is no longer in the registry, and handleThumbnailReady is
\* invoked on a response at most once.
C16_AtomicDrain ==
    /\ \A r \in ReqIds : calls[r] <= 1
    /\ \A t \in Threads, u \in Threads :
          t # u => thr[t].set \cap thr[u].set = {}
    /\ \A t \in Threads : \A r \in thr[t].set :
          /\ calls[r] = 0
          /\ thr[t].pc # "erase" => ~IsWaiter(r)

\* Two notifyThumbnailReady calls for one identity are in their loops at the
\* same time: each drained one of the two requests, and neither request has
\* been called yet.
C16_Witness ==
    /\ At(1, "notify", "loop") /\ At(2, "notify", "loop")
    /\ thr[1].h = thr[2].h
    /\ thr[1].set = {1}
    /\ thr[2].set = {2}
    /\ calls[1] = 0 /\ calls[2] = 0

\* C17: no thread holds m_pendingMutex and m_cacheMutex together; the loop
\* that invokes handleThumbnailReady runs without m_pendingMutex; a thread
\* that holds m_cacheMutex does nothing but give it back, and taking it
\* touches neither the registry nor a request; a thread waiting for a mutex
\* holds none, so the holder of a mutex can always go on and no set of
\* threads waits for each other.
C17_LockDiscipline ==
    /\ [](\A t \in Threads :
            /\ ~(m_pendingMutex = t /\ m_cacheMutex = t)
            /\ thr[t].pc = "loop" => m_pendingMutex # t
            /\ thr[t].pc \in CachePcs \cup PendingPcs
               => m_pendingMutex # t /\ m_cacheMutex # t
            /\ m_cacheMutex = t
               => thr[t].pc \in {"hasHit", "hasMiss", "getU", "cacheU", "clrU", "rszU"}
            /\ m_pendingMutex = t
               => thr[t].pc \in {"erase", "unlock", "ret", "rmU", "addU"})
    /\ [][\A t \in Threads :
            /\ (m_cacheMutex = t /\ m_cacheMutex' = t) => thr'[t] = thr[t]
            /\ (m_cacheMutex # t /\ m_cacheMutex' = t)
               => UNCHANGED <<m_pendingRequests, resp, calls>>]_vars

\* A notifyThumbnailReady call is inside cacheImage for a response it
\* delivers to, holding m_cacheMutex, while a destructor on the other thread
\* is inside removePendingRequest, holding m_pendingMutex.
C17_Witness ==
    \E t \in Threads, u \in Threads :
        /\ At(t, "notify", "cacheU")
        /\ m_cacheMutex = t
        /\ At(u, "dtor", "rmU")
        /\ m_pendingMutex = u

\* C18: a request that is registered after its constructor has returned has
\* had a generation enqueue issued for its identity since the waiter set of
\* that identity was last drained (the set it is in was opened after that
\* drain, and an enqueue was accepted since the set was opened).
C18_LateWaiterEnqueued ==
    \A r \in ReqIds :
        resp[r].pc = "returned" /\ IsWaiter(r)
        => enqOpen[resp[r].fileHash] >= 1

\* C19: a request without source locator whose key missed the cache leaves
\* the disk probe finished: when the probe found no artifact it is Failed
\* with a non-empty error before its constructor returns; it is not added
\* to the pending registry and no generation enqueue is issued for it, in
\* that step or at any later time.
C19_MissingSource ==
    /\ [](\A r \in ReqIds :
            resp[r].pc \notin {"unborn", "destroyed"} /\ ~resp[r].hasPath
            => /\ resp[r].pc # "enqueue"
               /\ ~resp[r].enqueued
               /\ r \notin registered
               /\ ~IsWaiter(r))
    /\ [][\A r \in ReqIds :
            resp[r].pc = "probe" /\ ~resp[r].hasPath /\ resp'[r] # resp[r]
            => /\ resp'[r].pc = "returned"
               /\ resp'[r].finished
               /\ emitted'[r] = 1
               /\ resp'[r].image = NullImage => resp'[r].error # ""
               /\ UNCHANGED <<m_pendingRequests, registered, enqCalls,
                              enqOpen, engineJobs>>]_vars

\* A request without source locator missed cache and disk and was failed by
\* its constructor.
C19_Witness ==
    \E r \in ReqIds :
        /\ resp[r].pc = "returned"
        /\ ~resp[r].hasPath
        /\ resp[r].finished
        /\ resp[r].image = NullImage
        /\ resp[r].error = "Missing file path for thumbnail request"
        /\ emitted[r] = 1
        /\ r \notin registered

\* C20: a pending request called with a completion event is finished by
\* that call, from the source the event selects: the placeholder payload
\* when the event is flagged placeholder and carries placeholder bytes,
\* whether or not it also carries an artifact path; else the artifact path
\* when it carries one; and when it carries neither the request is Failed.
C20_DecodeSourceSelection ==
    [][\A r \in ReqIds :
         /\ notify.pc = "loop"
         /\ r \in notify.responses
         /\ ~resp[r].finished
         /\ resp'[r] # resp[r]
         /\ resp'[r].pc = resp[r].pc
         => LET ev == notify.ev
                o == resp'[r]
            IN /\ o.finished
               /\ IF ev.isPlaceholder /\ ev.b64
                  THEN \/ o.image = PlaceholderImage(ev.fileHash, ev.size)
                       \/ /\ o.image = NullImage
                          /\ o.error = "Failed to decode base64 image"
                  ELSE IF ev.path
                       THEN \/ o.image = ArtifactImage(ev.fileHash, ev.size)
                            \/ o.image = NullImage /\ o.error = "decode error"
                       ELSE /\ o.image = NullImage
                            /\ o.error = "No thumbnail available"]_vars

\* The first of two waiters was Delivered the placeholder of an event that
\* also carries an artifact path.
C20_Witness ==
    /\ notify.pc = "fin2"
    /\ notify.ev.path /\ notify.ev.isPlaceholder /\ notify.ev.b64
    /\ notify.cur \in ReqIds
    /\ resp[notify.cur].finished
    /\ resp[notify.cur].image.kind = "placeholder"

\* C21: a pending request called with a completion event that carries no
\* placeholder payload and has useOriginal set is not decoded from the
\* artifact path of the event, and is not failed for want of one.
C21_UseOriginalHonoured ==
    [][\A r \in ReqIds :
         /\ notify.pc = "loop"
         /\ r \in notify.responses
         /\ ~resp[r].finished
         /\ resp'[r] # resp[r]
         /\ resp'[r].pc = resp[r].pc
         /\ notify.ev.useOriginal
         /\ ~(notify.ev.isPlaceholder /\ notify.ev.b64)
         => /\ resp'[r].image.kind # "artifact"
            /\ resp'[r].error # "No thumbnail available"]_vars

\* A request Failed by loadFromPath or loadFromBase64.
DecodeFailed(o) ==
    /\ o.finished
    /\ o.image = NullImage
    /\ o.error \in {"decode error", "Failed to decode base64 image"}

\* The step that fails request r past the cache miss, other than the
\* missing path test and an event without source, is a failed decode: the
\* error is not empty, the cache is as it was and nothing is enqueued.
DecodeFailureStep(r) ==
    /\ ~resp[r].finished
    /\ resp[r].pc # "getCached"
    /\ resp'[r].finished
    /\ resp'[r].image = NullImage
    /\ resp'[r].error \notin {"Missing file path for thumbnail request",
                              "No thumbnail available"}
    => /\ resp'[r].error # ""
       /\ m_imageCache' = m_imageCache
       /\ UNCHANGED <<enqCalls, engineJobs, evq>>

\* C22: a request whose decode failed has a non-empty error and is in no
\* waiter set; the step that fails it writes nothing to the image cache and
\* enqueues nothing; and the request makes no enqueue call afterwards.
C22_DecodeFailureTerminal ==
    /\ [](\A r \in ReqIds : DecodeFailed(resp[r]) => ~IsWaiter(r))
    /\ [][\A r \in ReqIds : DecodeFailureStep(r)]_vars
    /\ [][\A r \in ReqIds :
            DecodeFailed(resp[r]) => ~(resp[r].pc = "enqueue" /\ resp'[r].pc = "returned")]_vars

\* The constructor of request r leaves the disk probe finished by something
\* other than the missing path test: the probe found the artifact.
DiskHit(r) ==
    /\ resp[r].pc = "probe"
    /\ resp'[r].finished
    /\ resp'[r].error # "Missing file path for thumbnail request"

\* What the constructor does on a disk hit, the cache apart.
DiskHitStep(r) ==
    /\ resp'[r].pc = "returned"
    /\ emitted'[r] = 1
    /\ \/ resp'[r].image.kind = "artifact" /\ resp'[r].error = ""
       \/ DecodeFailed(resp'[r])
    /\ r \notin registered'
    /\ UNCHANGED <<m_pendingRequests, registered, enqCalls, enqOpen,
                   engineJobs>>

C24_ImageOrError ==
    \A r \in ReqIds :
        resp[r].finished
        => \/ resp[r].image # NullImage /\ resp[r].error = ""
           \/ resp[r].image = NullImage /\ resp[r].error # ""

\* ------------------------------------------------------ the request token
\* requestImageResponse parses the id that PhotoModel::data builds for
\* ThumbnailUrlRole.  QStrings are sequences of characters.
MaxPathLen == 3
MaxHashLen == 2

PathChars == {"a", "/", "|", "%", "2", "F"}
HashChars == {"h", "2"}
Small == <<"s", "m", "a", "l", "l">>
Medium == <<"m", "e", "d", "i", "u", "m">>
Large == <<"l", "a", "r", "g", "e">>
SizeClasses == {Small, Medium, Large}

StringsOver(chars, n) == UNION {[1..k -> chars] : k \in 0..n}

\* QUrl::toPercentEncoding leaves ALPHA, DIGIT, '-', '.', '_' and '~'.
Unreserved(c) == c \notin {"/", "|", "%"}

\* The two hexadecimal digits of a character.
HexOf(c) ==
    CASE c = "/" -> <<"2", "F">>
      [] c = "|" -> <<"7", "C">>
      [] c = "%" -> <<"2", "5">>

\* The character of two hexadecimal digits; "?" is any other byte.
ByteOf(a, b) ==
    CASE a = "2" /\ b = "F" -> "/"
      [] a = "7" /\ b = "C" -> "|"
      [] a = "2" /\ b = "5" -> "%"
      [] OTHER -> "?"

\* Mutant: the locator is put into the token as it is.
ToPercentEncodingNone(str) == str

RECURSIVE ToPercentEncoding(_)
\* QUrl::toPercentEncoding(photo.filePath).
ToPercentEncoding(str) ==
    IF str = <<>> THEN <<>>
    ELSE (IF Unreserved(Head(str)) THEN <<Head(str)>>
          ELSE <<"%">> \o HexOf(Head(str)))
         \o ToPercentEncoding(Tail(str))

RECURSIVE FromPercentEncoding(_)
\* QUrl::fromPercentEncoding: a '%' followed by at least two characters
\* stands for the byte they encode, every other character for itself.
FromPercentEncoding(str) ==
    IF str = <<>> THEN <<>>
    ELSE IF Head(str) = "%" /\ Len(str) >= 3
         THEN <<ByteOf(str[2], str[3])>>
              \o FromPercentEncoding(SubSeq(str, 4, Len(str)))
         ELSE <<Head(str)>> \o FromPercentEncoding(Tail(str))

\* QString::indexOf(c), counted from 1; 0 when c does not occur.
IndexOf(str, c) ==
    IF \E i \in 1..Len(str) : str[i] = c
    THEN CHOOSE i \in 1..Len(str) :
            str[i] = c /\ \A j \in 1..(i - 1) : str[j] # c
    ELSE 0

\* str.left(n) with n the position before the first c, the whole string
\* when c does not occur: the first part of str.split(c).
Before(str, c) ==
    IF IndexOf(str, c) > 0 THEN SubSeq(str, 1, IndexOf(str, c) - 1) ELSE str

\* str.mid(n) past the first c.
After(str, c) == SubSeq(str, IndexOf(str, c) + 1, Len(str))

\* requestImageResponse up to the construction of the response:
\* parts = id.split('/'); parts.value(0); parts.value(1, "medium");
\* indexOf('|'); fromPercentEncoding(mid(separator + 1)); left(separator).
ParseId(tok) ==
    LET hashPart == Before(tok, "/")
        size == IF IndexOf(tok, "/") > 0 THEN Before(After(tok, "/"), "/")
                ELSE Medium
        separator == IndexOf(hashPart, "|")
    IN [hashPart |-> IF separator > 0 THEN SubSeq(hashPart, 1, separator - 1)
                     ELSE hashPart,
        filePath |-> IF separator > 0
                     THEN FromPercentEncoding(After(hashPart, "|"))
                     ELSE <<>>,
        size |-> size,
        done |-> TRUE]

\* The token of a photo: "%1|%2/medium" with the locator percent-encoded,
\* "%1/medium" without locator; and the same without the size suffix.
ThumbnailUrl(p) ==
    p.fileHash
    \o (IF p.form \in {"full", "noSize"}
        THEN <<"|">> \o ToPercentEncoding(p.filePath) ELSE <<>>)
    \o (IF p.form \in {"full", "noPath"} THEN <<"/">> \o p.size ELSE <<>>)

Forms == {"full", "noPath", "noSize", "bare"}

tokenFrame == <<handle, m_imageCache, maxCost, m_pendingRequests, resp,
                engineJobs, evq, notify, enqCalls, enqOpen, processed,
                emitted, removals, registered, dangling, kept, uses, hit,
                thr, m_pendingMutex, m_cacheMutex, calls, handed, posted,
                signals, modelVars, storeVars>>

\* A photo with an identity of 1..MaxHashLen characters without '|' and '/',
\* a locator of up to MaxPathLen characters and a size class; a form
\* without locator has none, a form without size suffix names medium.
TokenInit ==
    /\ handle = FALSE
    /\ m_imageCache = <<>>
    /\ maxCost = DEFAULT_CACHE_SIZE
    /\ m_pendingRequests = <<>>
    /\ resp = [r \in ReqIds |-> NoResponse]
    /\ engineJobs = [k \in Keys |-> 0]
    /\ evq = <<>>
    /\ notify = IdleNotify
    /\ enqCalls = [k \in Keys |-> 0]
    /\ enqOpen = [h \in Hashes |-> 0]
    /\ processed = 0
    /\ emitted = [r \in ReqIds |-> 0]
    /\ removals = [r \in ReqIds |-> 0]
    /\ registered = {}
    /\ dangling = FALSE
    /\ kept = {}
    /\ uses = <<>>
    /\ hit = FALSE
    /\ thr = [t \in Threads |-> IdleThread]
    /\ m_pendingMutex = 0
    /\ m_cacheMutex = 0
    /\ calls = [r \in ReqIds |-> 0]
    /\ photo \in [fileHash : StringsOver(HashChars, MaxHashLen) \ {<<>>},
                  filePath : StringsOver(PathChars, MaxPathLen),
                  size : SizeClasses,
                  form : Forms]
    /\ photo.form \in {"noPath", "bare"} => photo.filePath = <<>>
    /\ photo.form \in {"noSize", "bare"} => photo.size = Medium
    /\ id = <<>>
    /\ parsed = NoParse
    /\ handed = <<>>
    /\ posted = <<>>
    /\ signals = <<>>
    /\ ModelIdle
    /\ StoreIdle

\* PhotoModel::data(index, ThumbnailUrlRole).
BuildToken ==
    /\ id = <<>>
    /\ id' = ThumbnailUrl(photo)
    /\ UNCHANGED <<photo, parsed, tokenFrame>>

\* ThumbnailProvider::requestImageResponse(id, requestedSize).
RequestImageResponse ==
    /\ id # <<>>
    /\ ~parsed.done
    /\ parsed' = ParseId(id)
    /\ UNCHANGED <<photo, id, tokenFrame>>

TokenNext == BuildToken \/ RequestImageResponse

TokenSpec == TokenInit /\ [][TokenNext]_vars

\* C25: the parse of a token yields the identity it was built from, the
\* locator it was built from (none for a token without '|') and the size
\* class it was built with (medium for a token without '/size' suffix).
C25_TokenRoundTrip ==
    parsed.done
    => /\ parsed.hashPart = photo.fileHash
       /\ parsed.filePath = photo.filePath
       /\ parsed.size = photo.size

\* A locator made of '/', '|' and '%' came back from a full token, and a
\* bare token was parsed too.
C25_Witness ==
    /\ parsed.done
    /\ photo.form = "full"
    /\ photo.filePath = <<"%", "/", "|">>
    /\ parsed.filePath = <<"%", "/", "|">>
    /\ parsed.size = Large

\* ------------------------------------------------- RustBridge event path
\* The engine calls RustBridge::eventCallback on its own threads.  The
\* callback posts a call of processEvent to the thread the bridge lives on
\* (QMetaObject::invokeMethod, Qt::QueuedConnection); the event loop of that
\* thread takes the posted calls one at a time, oldest first.  The bridge
\* and the provider are alive and the loop runs.
MaxProducers == 2
MaxHanded == 3

Producers == 1..MaxProducers
BridgeThread == 0
EventNames == {"thumbnail-ready", "index-progress"}

\* Mutant: the posted call is put before the calls already waiting.
PostEventFront(q, e) == <<e>> \o q

\* QCoreApplication::postEvent at the default priority.
PostEvent(q, e) == Append(q, e)

bridgeFrame == <<handle, maxCost, engineJobs, evq, notify, enqCalls,
                 registered, dangling, uses, hit, thr, m_pendingMutex,
                 m_cacheMutex, calls, photo, id, parsed, modelVars,
                 storeVars>>

\* Two requests wait for generation when the first event arrives.
BridgeInit ==
    /\ handle = TRUE
    /\ m_imageCache = <<>>
    /\ maxCost = DEFAULT_CACHE_SIZE
    /\ \E h \in Hashes :
          resp = [r \in ReqIds |->
                    [NoResponse EXCEPT
                       !.pc = "returned",
                       !.fileHash = IF r = 1 THEN "h1" ELSE h,
                       !.size = IF r = 1 THEN "small" ELSE "large",
                       !.hasPath = TRUE, !.enqueued = TRUE]]
    /\ m_pendingRequests =
          [h \in {resp[r].fileHash : r \in ReqIds} |->
              {r \in ReqIds : resp[r].fileHash = h}]
    /\ engineJobs = [k \in Keys |->
                       Cardinality({r \in ReqIds : KeyOf(r) = k})]
    /\ enqCalls = engineJobs
    /\ enqOpen = [h \in Hashes |->
                    Cardinality({r \in ReqIds : resp[r].fileHash = h})]
    /\ evq = <<>>
    /\ notify = IdleNotify
    /\ processed = 0
    /\ emitted = [r \in ReqIds |-> 0]
    /\ removals = [r \in ReqIds |-> 0]
    /\ registered = ReqIds
    /\ dangling = FALSE
    /\ kept = {}
    /\ uses = <<>>
    /\ hit = FALSE
    /\ thr = [t \in Threads |-> IdleThread]
    /\ m_pendingMutex = 0
    /\ m_cacheMutex = 0
    /\ calls = [r \in ReqIds |-> 0]
    /\ photo = NoPhoto
    /\ id = <<>>
    /\ parsed = NoParse
    /\ handed = [p \in Producers |-> 0]
    /\ posted = <<>>
    /\ signals = <<>>
    /\ ModelIdle
    /\ StoreIdle

\* eventCallback(name, payload, userData) on producer thread p.  The
\* completion events of one producer name one identity.
EventCallback(p, name, h) ==
    /\ handed[p] < MaxHanded
    /\ h = IF p = 1 THEN "h1" ELSE "h2"
    /\ handed' = [handed EXCEPT ![p] = @ + 1]
    /\ posted' = PostEvent(posted, [src |-> p, seq |-> handed[p] + 1,
                                    name |-> name, fileHash |-> h])
    /\ UNCHANGED <<m_imageCache, m_pendingRequests, resp, enqOpen, processed,
                   emitted, removals, kept, signals, bridgeFrame>>

RECURSIVE CacheEach(_, _, _, _)
\* The cacheImage calls of the responses in ord, in that order.
CacheEach(c, mx, rs, ord) ==
    IF ord = <<>> THEN c
    ELSE CacheEach(CacheAfterFinish(c, mx, rs[Head(ord)],
                                    <<rs[Head(ord)].fileHash, rs[Head(ord)].size>>),
                   mx, rs, Tail(ord))

\* The orders in which a loop over the QSet w can visit its members.
Orders(w) ==
    {ord \in [1..Cardinality(w) -> w] :
        \A i, j \in 1..Cardinality(w) : ord[i] = ord[j] => i = j}

\* The posted call runs on the bridge's thread: processEvent emits the
\* signal of the event; for "thumbnail-ready" the provider's slot runs
\* notifyThumbnailReady to its end within the emission.
ProcessEvent ==
    /\ posted # <<>>
    /\ posted' = Tail(posted)
    /\ signals' = Append(signals, [ev |-> Head(posted), thread |-> BridgeThread])
    /\ IF Head(posted).name = "thumbnail-ready"
       THEN LET h == Head(posted).fileHash
                w == IF Find(m_pendingRequests, h)
                     THEN Waiters(m_pendingRequests, h) ELSE {}
                ev == [fileHash |-> h, size |-> "small", path |-> TRUE,
                       isPlaceholder |-> FALSE, b64 |-> FALSE,
                       useOriginal |-> FALSE]
            IN /\ processed' = processed + 1
               /\ m_pendingRequests' = IF Find(m_pendingRequests, h)
                                       THEN Drain(m_pendingRequests, h)
                                       ELSE m_pendingRequests
               /\ \E okf \in [w -> BOOLEAN], ord \in Orders(w) :
                     /\ resp' = [r \in ReqIds |->
                                   IF r \in w
                                   THEN HandleThumbnailReady(resp[r], ev, okf[r])
                                   ELSE resp[r]]
                     /\ m_imageCache' = CacheEach(m_imageCache, maxCost, resp', ord)
               /\ emitted' = [r \in ReqIds |->
                                IF r \in w THEN emitted[r] + 1 ELSE emitted[r]]
               /\ removals' = [r \in ReqIds |->
                                 IF r \in w THEN removals[r] + 1 ELSE removals[r]]
               /\ kept' = (kept \cup {<<resp'[r].fileHash, resp'[r].size>> :
                                        r \in {x \in w : resp'[x].image # NullImage}})
                          \cap CacheKeys(m_imageCache')
               /\ enqOpen' = EnqOpenAfter(enqOpen, m_pendingRequests')
       ELSE UNCHANGED <<m_imageCache, m_pendingRequests, resp, enqOpen,
                        processed, emitted, removals, kept>>
    /\ UNCHANGED <<handed, bridgeFrame>>

BridgeNext ==
    \/ \E p \in Producers, name \in EventNames, h \in Hashes :
          EventCallback(p, name, h)
    \/ ProcessEvent

\* The event loop of the bridge's thread keeps running.
BridgeSpec == BridgeInit /\ [][BridgeNext]_vars /\ WF_vars(ProcessEvent)

\* The number of entries of the sequence q that are event n of producer p.
Occurrences(q, p, n) ==
    Cardinality({i \in 1..Len(q) : q[i].src = p /\ q[i].seq = n})

Signalled == [i \in 1..Len(signals) |-> signals[i].ev]

PAGE_SIZE == 100
MaxTotal == 250
MaxModels == 2
MaxLoads == 4

Models == 1..MaxModels
Totals == {0, PAGE_SIZE, PAGE_SIZE + 1, 2 * PAGE_SIZE, MaxTotal}
Filters == {"", "favoritesOnly"}

Min(a, b) == IF a < b THEN a ELSE b

\* The photos of the database a filter admits, in id order; every second
\* photo is a favorite.
Matches(i, f) == f = "" \/ i % 2 = 0
Matching(f) == SelectSeq([i \in 1..photoCount |-> i], LAMBDA i : Matches(i, f))

\* photowall_get_photos_cursor_json / photowall_search_photos_cursor_json
\* with include_total = 1, and the photosReady arguments made of the answer.
SearchPhotos(f, limit, cursor) ==
    LET offset == IF cursor = <<>> THEN 0 ELSE cursor[1]
        all == Matching(f)
        photos == SubSeq(all, offset + 1, Min(offset + limit, Len(all)))
        more == offset + Len(photos) < Len(all)
    IN [photos |-> photos, total |-> Len(all), hasMore |-> more,
        nextCursor |-> IF more THEN <<offset + Len(photos)>> ELSE <<>>]

\* Mutant: only the model that asked is connected to the signal.
SubscribersSelf(m) == {m}

\* connect(RustBridge::instance(), &RustBridge::photosReady, this,
\* &PhotoModel::onPhotosReady) in the constructor of every model.
Subscribers(m) == Models

\* Mutant: the loop of onPhotosReady without the m_idToIndex assignment.
IndexAfterKeeps(idx, n, photos) == idx

\* onPhotosReady: m_idToIndex[photo.id] = m_photos.size() before each append
\* to a list of n rows.
IndexAfter(idx, n, photos) ==
    [i \in DOMAIN idx \cup {photos[k] : k \in 1..Len(photos)} |->
        LET at == {k \in 1..Len(photos) : photos[k] = i}
        IN IF at # {}
           THEN n - 1 + CHOOSE k \in at : \A j \in at : j <= k
           ELSE idx[i]]

modelFrame == <<handle, m_imageCache, maxCost, m_pendingRequests, resp,
                engineJobs, evq, notify, enqCalls, enqOpen, processed,
                emitted, removals, registered, dangling, kept, uses, hit,
                thr, m_pendingMutex, m_cacheMutex, calls, photo, id, parsed,
                handed, posted, signals, photoCount, storeVars>>

\* PhotoStore::PhotoStore: the photo model without filter, the next model
\* with the favorites filter; the database holds photoCount photos.
ModelInit ==
    /\ handle = TRUE
    /\ m_imageCache = <<>>
    /\ maxCost = DEFAULT_CACHE_SIZE
    /\ m_pendingRequests = <<>>
    /\ resp = [r \in ReqIds |-> NoResponse]
    /\ engineJobs = [k \in Keys |-> 0]
    /\ evq = <<>>
    /\ notify = IdleNotify
    /\ enqCalls = [k \in Keys |-> 0]
    /\ enqOpen = [h \in Hashes |-> 0]
    /\ processed = 0
    /\ emitted = [r \in ReqIds |-> 0]
    /\ removals = [r \in ReqIds |-> 0]
    /\ registered = {}
    /\ dangling = FALSE
    /\ kept = {}
    /\ uses = <<>>
    /\ hit = FALSE
    /\ thr = [t \in Threads |-> IdleThread]
    /\ m_pendingMutex = 0
    /\ m_cacheMutex = 0
    /\ calls = [r \in ReqIds |-> 0]
    /\ photo = NoPhoto
    /\ id = <<>>
    /\ parsed = NoParse
    /\ handed = <<>>
    /\ posted = <<>>
    /\ signals = <<>>
    /\ StoreIdle
    /\ photoCount \in Totals
    /\ m_photos = [m \in Models |-> <<>>]
    /\ m_idToIndex = [m \in Models |-> <<>>]
    /\ m_nextCursor = [m \in Models |-> <<>>]
    /\ m_searchFilters = [m \in Models |-> IF m = 1 THEN "" ELSE "favoritesOnly"]
    /\ m_totalCount = [m \in Models |-> 0]
    /\ m_loading = [m \in Models |-> FALSE]
    /\ m_hasMore = [m \in Models |-> FALSE]
    /\ loadedWith = [m \in Models |-> "never"]
    /\ mixed = [m \in Models |-> FALSE]
    /\ lastCall = [m |-> 0, op |-> "none", rows |-> 0, was |-> "never"]
    /\ loadCalls = 0

\* The call made last: the model, the method, and the rows and the filters
\* of the loaded query the model had when the call began.
Called(m, op) ==
    [m |-> m, op |-> op, rows |-> Len(m_photos[m]), was |-> loadedWith[m]]

\* setSearchFilters(filters).
SetSearchFilters(m, f) ==
    /\ m_searchFilters' = [m_searchFilters EXCEPT ![m] = f]
    /\ lastCall' = Called(m, "setSearchFilters")
    /\ UNCHANGED <<m_photos, m_idToIndex, m_nextCursor, m_totalCount,
                   m_loading, m_hasMore, loadedWith, mixed, loadCalls,
                   modelFrame>>

\* Model m asks, from its first page (after clear()) or from its cursor:
\* setLoading(true), then photosReady with result r reaches the models in
\* to, each running onPhotosReady.
Answered(m, initial, r, to) ==
    LET wipe == initial /\ m_photos[m] # <<>>
        P0 == IF wipe THEN [m_photos EXCEPT ![m] = <<>>] ELSE m_photos
        I0 == IF wipe THEN [m_idToIndex EXCEPT ![m] = <<>>] ELSE m_idToIndex
        C0 == IF wipe THEN [m_nextCursor EXCEPT ![m] = <<>>] ELSE m_nextCursor
        T0 == IF wipe THEN [m_totalCount EXCEPT ![m] = 0] ELSE m_totalCount
        got(x) == x \in to /\ r.photos # <<>>
    IN /\ m_photos' = [x \in Models |->
                         IF got(x) THEN P0[x] \o r.photos ELSE P0[x]]
       /\ m_idToIndex' = [x \in Models |->
                            IF got(x)
                            THEN IndexAfter(I0[x], Len(P0[x]), r.photos)
                            ELSE I0[x]]
       /\ m_nextCursor' = [x \in Models |->
                             IF got(x) THEN r.nextCursor ELSE C0[x]]
       /\ m_totalCount' = [x \in Models |->
                             IF got(x) THEN r.total ELSE T0[x]]
       /\ m_hasMore' = [x \in Models |->
                          IF x \in to THEN r.hasMore /\ r.photos # <<>>
                          ELSE IF x = m /\ wipe THEN FALSE ELSE m_hasMore[x]]
       /\ m_loading' = [x \in Models |->
                          IF x \in to THEN FALSE
                          ELSE x = m \/ m_loading[x]]

\* The query of model m with an initialised bridge and a core that answers:
\* getPhotosAsync or searchPhotosAsync emit the page to every model
\* connected to the signal.
Load(m, initial) ==
    Answered(m, initial,
             SearchPhotos(m_searchFilters[m], PAGE_SIZE,
                          IF initial THEN <<>> ELSE m_nextCursor[m]),
             Subscribers(m))

\* loadInitial(), also as the body of refresh().
LoadInitialCall(m, op) ==
    /\ loadCalls < MaxLoads
    /\ loadCalls' = loadCalls + 1
    /\ lastCall' = Called(m, op)
    /\ IF m_loading[m]
       THEN UNCHANGED <<m_photos, m_idToIndex, m_nextCursor, m_totalCount,
                        m_loading, m_hasMore, loadedWith, mixed>>
       ELSE /\ Load(m, TRUE)
            /\ loadedWith' = [loadedWith EXCEPT ![m] = m_searchFilters[m]]
            /\ mixed' = [mixed EXCEPT ![m] = FALSE]
    /\ UNCHANGED <<m_searchFilters, modelFrame>>

LoadInitial(m) == LoadInitialCall(m, "loadInitial")

Refresh(m) == LoadInitialCall(m, "refresh")

\* loadMore().
LoadMore(m) ==
    /\ loadCalls < MaxLoads
    /\ loadCalls' = loadCalls + 1
    /\ lastCall' = Called(m, "loadMore")
    /\ IF m_loading[m] \/ ~m_hasMore[m]
       THEN UNCHANGED <<m_photos, m_idToIndex, m_nextCursor, m_totalCount,
                        m_loading, m_hasMore, mixed>>
       ELSE /\ Load(m, FALSE)
            /\ mixed' = [mixed EXCEPT
                           ![m] = @ \/ m_searchFilters[m] # loadedWith[m]]
    /\ UNCHANGED <<m_searchFilters, loadedWith, modelFrame>>

ModelNext ==
    \/ \E m \in Models, f \in Filters : SetSearchFilters(m, f)
    \/ \E m \in Models : LoadInitial(m)
    \/ \E m \in Models : Refresh(m)
    \/ \E m \in Models : LoadMore(m)

ModelSpec == ModelInit /\ [][ModelNext]_vars

\* The first n photos of the query with filter f.
FirstOf(f, n) == SubSeq(Matching(f), 1, Min(n, Len(Matching(f))))

\* C27: a model that was loaded with loadInitial and then only paged with
\* the same filters holds the first count photos of its query, whole pages
\* or all of them, in order and without repetition; totalCount is the total
\* of the query and hasMore says whether photos are missing.
C27_CursorPagination ==
    \A m \in Models :
        loadedWith[m] # "never" /\ ~mixed[m]
        => LET all == Matching(loadedWith[m])
               count == Len(m_photos[m])
           IN /\ m_photos[m] = FirstOf(loadedWith[m], count)
              /\ count = Len(all) \/ (count > 0 /\ count % PAGE_SIZE = 0)
              /\ count >= Min(PAGE_SIZE, Len(all))
              /\ m_totalCount[m] = Len(all)
              /\ m_hasMore[m] = (count < Len(all))

\* indexOfPhoto(photoId): m_idToIndex.value(photoId, -1).
IndexOfPhoto(m, i) ==
    IF i \in DOMAIN m_idToIndex[m] THEN m_idToIndex[m][i] ELSE 0 - 1

LastWaiterLeaves(h, r) ==
    /\ h \in DOMAIN m_pendingRequests
    /\ m_pendingRequests[h] = {r}
    /\ resp[r].pc = "returned"
    /\ resp'[r].pc = "destroyed"

\* The step is the critical section of notifyThumbnailReady for an
\* identity that has an entry.
DrainStep(h) ==
    /\ notify.pc = "idle"
    /\ evq # <<>>
    /\ evq' = Tail(evq)
    /\ Head(evq)[1] = h
    /\ h \in DOMAIN m_pendingRequests

\* C29: every entry of the pending registry holds at least one request;
\* the release of the last waiter of an identity erases its entry and no
\* other, and a drain takes the entry away together with its whole set.
C29_NoEmptyWaiterSets ==
    /\ [](\A h \in DOMAIN m_pendingRequests : m_pendingRequests[h] # {})
    /\ [][\A h \in Hashes, r \in ReqIds :
            LastWaiterLeaves(h, r)
            => m_pendingRequests' = [k \in DOMAIN m_pendingRequests \ {h} |->
                                        m_pendingRequests[k]]]_vars
    /\ [][\A h \in Hashes :
            DrainStep(h)
            => /\ m_pendingRequests' = [k \in DOMAIN m_pendingRequests \ {h} |->
                                           m_pendingRequests[k]]
               /\ notify'.responses = m_pendingRequests[h]]_vars

\* Request 1 was the only waiter of "h1" and was released before any event
\* was processed: the entry of "h1" is gone, that of "h2" is left with its
\* waiter.
C29_Witness ==
    /\ resp[1].pc = "destroyed"
    /\ removals[1] = 1
    /\ processed = 0
    /\ \E s \in Sizes : enqCalls[<<"h1", s>>] = 1
    /\ DOMAIN m_pendingRequests = {"h2"}
    /\ m_pendingRequests["h2"] = {2}

\* ------------------------------------------------- notification and handle
\* The step emits finished() of request r.
EmitsFinished(r) == emitted'[r] > emitted[r]

\* requestImageResponse has returned the handle of request r.
HandleReturned(r) == resp[r].pc \in {"returned", "destroyed"}

\* C30: finished() of a request is emitted only in a step that begins after
\* requestImageResponse has returned the handle of the request.
C30_FinishedAfterHandle ==
    [][\A r \in ReqIds : EmitsFinished(r) => HandleReturned(r)]_vars

\* ------------------------------------------------ registration and enqueue
\* The step hands the generation enqueue of request r to the engine.
HandsEnqueue(r) ==
    /\ resp[r].pc = "enqueue"
    /\ resp'[r].pc = "returned"
    /\ engineJobs'[KeyOf(r)] > engineJobs[KeyOf(r)]

\* The step is the critical section of notifyThumbnailReady for a
\* completion event of identity h.
ProcessesEvent(h) ==
    /\ notify.pc = "idle"
    /\ evq # <<>>
    /\ evq' = Tail(evq)
    /\ Head(evq)[1] = h

\* Request r exists, its enqueue reached the engine, and it is neither in
\* a waiter set nor finished.
EnqueuedUnregistered(r) ==
    /\ resp[r].pc = "returned"
    /\ resp[r].enqueued
    /\ ~resp[r].finished
    /\ ~IsWaiter(r)

\* C31: a request whose enqueue is handed to the engine was inserted into
\* the waiter set of its identity before, and is still in it unless an
\* event drained it (it is finished or the delivery loop holds it); and
\* a completion event is never processed while a request of its identity
\* exists whose enqueue reached the engine and that is neither registered
\* nor finished.
C31_RegistrationPrecedesEnqueue ==
    /\ [][\A r \in ReqIds :
            HandsEnqueue(r)
            => /\ r \in registered
               /\ \/ r \in Waiters(m_pendingRequests, resp[r].fileHash)
                  \/ r \in notify.responses
                  \/ notify.cur = r
                  \/ resp[r].finished]_vars
    /\ [][\A h \in Hashes, r \in ReqIds :
            ProcessesEvent(h) /\ resp[r].fileHash = h
            => ~EnqueuedUnregistered(r)]_vars

\* The event of an earlier enqueue was processed while request 2 was
\* between its registration and its own enqueue: it was found registered.
C31_Witness ==
    /\ processed = 1
    /\ resp[2].pc = "enqueue"
    /\ resp[2].finished
    /\ removals[2] = 1
    /\ 2 \in registered

\* ------------------------------------------------------ cache key integrity
\* C32: every image in the cache was decoded from the artifact generated
\* for the identity and the size class of the key it is stored under.
C32_CacheKeyIntegrity ==
    \A i \in 1..Len(m_imageCache) :
        m_imageCache[i].img =
            ArtifactImage(m_imageCache[i].key[1], m_imageCache[i].key[2])

\* ------------------------------------- frame of finish, cancel, maintenance
\* The step sets m_finished of request r, runs the removePendingRequest of
\* its finish, or is its destructor.
FinishOrDestroyStep(r) ==
    \/ ~resp[r].finished /\ resp'[r].finished
    \/ notify.pc = "fin2" /\ notify.cur = r /\ notify' # notify
    \/ resp[r].pc = "returned" /\ resp'[r].pc = "destroyed"

\* The registry lost at most request r, and no other request changed.
OnlyTouches(r) ==
    /\ \A h \in Hashes :
          /\ Waiters(m_pendingRequests', h) \subseteq Waiters(m_pendingRequests, h)
          /\ Waiters(m_pendingRequests, h) \ Waiters(m_pendingRequests', h)
                \subseteq {r}
    /\ \A q \in ReqIds \ {r} : resp'[q] = resp[q]

\* C33: a step that finishes or destroys request r takes at most r out of
\* the registry and changes no other request; clearCache and setCacheSize
\* change neither the registry nor any request nor the delivery in progress.
C33_FinishCancelFrame ==
    /\ [][\A r \in ReqIds : FinishOrDestroyStep(r) => OnlyTouches(r)]_vars
    /\ [][(ClearCache \/ \E n \in 0..MaxCapacity : SetCacheSize(n))
          => UNCHANGED <<m_pendingRequests, resp, notify, evq, engineJobs,
                         emitted>>]_vars

\* Request 2 finished inside its constructor without ever being registered
\* while request 1 waits for the same identity: request 1 is still waiting.
C33_Witness ==
    /\ IsWaiter(1)
    /\ ~resp[1].finished
    /\ resp[2].finished
    /\ resp[2].pc = "returned"
    /\ resp[2].fileHash = resp[1].fileHash
    /\ 2 \notin registered
    /\ emitted[2] = 1

\* --------------------------------------------------------- model isolation
\* The step changed nothing of model x that a result can change.
ModelUntouched(x) ==
    /\ m_photos'[x] = m_photos[x]
    /\ m_idToIndex'[x] = m_idToIndex[x]
    /\ m_nextCursor'[x] = m_nextCursor[x]
    /\ m_totalCount'[x] = m_totalCount[x]
    /\ m_hasMore'[x] = m_hasMore[x]
    /\ m_loading'[x] = m_loading[x]

\* C34: a call made on one model changes the rows, the total, hasMore, the
\* cursor and the loading flag of no other model.
C34_ModelIsolation ==
    [][\A x \in Models : lastCall'.m # x => ModelUntouched(x)]_vars

\* ------------------------------------------------- loads and a failing bridge
\* PhotoModel's loads over a bridge that may be uninitialised and a core
\* call that may return an error: getPhotosAsync and searchPhotosAsync then
\* emit photosReady(QJsonArray(), QJsonObject(), 0, false).
LoadTotals == {0, PAGE_SIZE + 1}

EmptyResult == [photos |-> <<>>, total |-> 0, hasMore |-> FALSE, nextCursor |-> <<>>]

\* Mutant: the bridge returns from a failed query without emitting.
FailureRecipientsNone(m) == {}

\* The models that receive the empty result of a failed query.
FailureRecipients(m) == Subscribers(m)

\* getPhotosAsync / searchPhotosAsync for model m; coreOk is the core's
\* return code being 0.
PhotosAsync(m, initial, coreOk) ==
    IF handle /\ coreOk
    THEN Load(m, initial)
    ELSE Answered(m, initial, EmptyResult, FailureRecipients(m))

LoadInit ==
    /\ handle \in BOOLEAN
    /\ m_imageCache = <<>>
    /\ maxCost = DEFAULT_CACHE_SIZE
    /\ m_pendingRequests = <<>>
    /\ resp = [r \in ReqIds |-> NoResponse]
    /\ engineJobs = [k \in Keys |-> 0]
    /\ evq = <<>>
    /\ notify = IdleNotify
    /\ enqCalls = [k \in Keys |-> 0]
    /\ enqOpen = [h \in Hashes |-> 0]
    /\ processed = 0
    /\ emitted = [r \in ReqIds |-> 0]
    /\ removals = [r \in ReqIds |-> 0]
    /\ registered = {}
    /\ dangling = FALSE
    /\ kept = {}
    /\ uses = <<>>
    /\ hit = FALSE
    /\ thr = [t \in Threads |-> IdleThread]
    /\ m_pendingMutex = 0
    /\ m_cacheMutex = 0
    /\ calls = [r \in ReqIds |-> 0]
    /\ photo = NoPhoto
    /\ id = <<>>
    /\ parsed = NoParse
    /\ handed = <<>>
    /\ posted = <<>>
    /\ signals = <<>>
    /\ StoreIdle
    /\ photoCount \in LoadTotals
    /\ m_photos = [m \in Models |-> <<>>]
    /\ m_idToIndex = [m \in Models |-> <<>>]
    /\ m_nextCursor = [m \in Models |-> <<>>]
    /\ m_searchFilters = [m \in Models |-> IF m = 1 THEN "" ELSE "favoritesOnly"]
    /\ m_totalCount = [m \in Models |-> 0]
    /\ m_loading = [m \in Models |-> FALSE]
    /\ m_hasMore = [m \in Models |-> FALSE]
    /\ loadedWith = [m \in Models |-> "never"]
    /\ mixed = [m \in Models |-> FALSE]
    /\ lastCall = [m |-> 0, op |-> "none", rows |-> 0, was |-> "never"]
    /\ loadCalls = 0

\* loadInitial() over the bridge, also as the body of refresh().
TryLoadInitialCall(m, op, coreOk) ==
    /\ loadCalls < MaxLoads
    /\ loadCalls' = loadCalls + 1
    /\ lastCall' = Called(m, op)
    /\ IF m_loading[m]
       THEN UNCHANGED <<m_photos, m_idToIndex, m_nextCursor, m_totalCount,
                        m_loading, m_hasMore, loadedWith, mixed>>
       ELSE /\ PhotosAsync(m, TRUE, coreOk)
            /\ loadedWith' = [loadedWith EXCEPT ![m] = m_searchFilters[m]]
            /\ mixed' = [mixed EXCEPT ![m] = FALSE]
    /\ UNCHANGED <<m_searchFilters, modelFrame>>

TryLoadInitial(m, coreOk) == TryLoadInitialCall(m, "loadInitial", coreOk)

TryRefresh(m, coreOk) == TryLoadInitialCall(m, "refresh", coreOk)

\* loadMore() over the bridge.
TryLoadMore(m, coreOk) ==
    /\ loadCalls < MaxLoads
    /\ loadCalls' = loadCalls + 1
    /\ lastCall' = Called(m, "loadMore")
    /\ IF m_loading[m] \/ ~m_hasMore[m]
       THEN UNCHANGED <<m_photos, m_idToIndex, m_nextCursor, m_totalCount,
                        m_loading, m_hasMore, mixed>>
       ELSE /\ PhotosAsync(m, FALSE, coreOk)
            /\ mixed' = [mixed EXCEPT
                           ![m] = @ \/ m_searchFilters[m] # loadedWith[m]]
    /\ UNCHANGED <<m_searchFilters, loadedWith, modelFrame>>

LoadNext ==
    \/ \E m \in Models, f \in Filters : SetSearchFilters(m, f)
    \/ \E m \in Models, coreOk \in BOOLEAN : TryLoadInitial(m, coreOk)
    \/ \E m \in Models, coreOk \in BOOLEAN : TryRefresh(m, coreOk)
    \/ \E m \in Models, coreOk \in BOOLEAN : TryLoadMore(m, coreOk)

LoadSpec == LoadInit /\ [][LoadNext]_vars

\* The step is a loadMore() call on model m, which has no more photos.
LoadMoreAtEnd(m) ==
    /\ loadCalls' > loadCalls
    /\ lastCall'.op = "loadMore"
    /\ lastCall'.m = m
    /\ ~m_hasMore[m]

MaxStarts == 3
MaxStoreEvents == 2
MaxIndexed == 2

PhotoModelOfStore == 1

IndexInit ==
    /\ handle \in BOOLEAN
    /\ m_imageCache = <<>>
    /\ maxCost = DEFAULT_CACHE_SIZE
    /\ m_pendingRequests = <<>>
    /\ resp = [r \in ReqIds |-> NoResponse]
    /\ engineJobs = [k \in Keys |-> 0]
    /\ evq = <<>>
    /\ notify = IdleNotify
    /\ enqCalls = [k \in Keys |-> 0]
    /\ enqOpen = [h \in Hashes |-> 0]
    /\ processed = 0
    /\ emitted = [r \in ReqIds |-> 0]
    /\ removals = [r \in ReqIds |-> 0]
    /\ registered = {}
    /\ dangling = FALSE
    /\ kept = {}
    /\ uses = <<>>
    /\ hit = FALSE
    /\ thr = [t \in Threads |-> IdleThread]
    /\ m_pendingMutex = 0
    /\ m_cacheMutex = 0
    /\ calls = [r \in ReqIds |-> 0]
    /\ photo = NoPhoto
    /\ id = <<>>
    /\ parsed = NoParse
    /\ handed = <<>>
    /\ posted = <<>>
    /\ signals = <<>>
    /\ StoreIdle
    /\ photoCount = 0
    /\ m_photos = [m \in Models |-> <<>>]
    /\ m_idToIndex = [m \in Models |-> <<>>]
    /\ m_nextCursor = [m \in Models |-> <<>>]
    /\ m_searchFilters = [m \in Models |-> IF m = 1 THEN "" ELSE "favoritesOnly"]
    /\ m_totalCount = [m \in Models |-> 0]
    /\ m_loading = [m \in Models |-> FALSE]
    /\ m_hasMore = [m \in Models |-> FALSE]
    /\ loadedWith = [m \in Models |-> "never"]
    /\ mixed = [m \in Models |-> FALSE]
    /\ lastCall = [m |-> 0, op |-> "none", rows |-> 0, was |-> "never"]
    /\ loadCalls = 0

indexFrame == <<m_imageCache, maxCost, m_pendingRequests, resp, engineJobs,
                evq, notify, enqCalls, enqOpen, processed, emitted, removals,
                registered, dangling, kept, uses, hit, thr, m_pendingMutex,
                m_cacheMutex, calls, photo, id, parsed, handed, posted,
                signals, m_selectedIds, modelSelectedIds, m_searchFilters,
                loadCalls, handle>>

photoModelVars == <<m_photos, m_idToIndex, m_nextCursor, m_totalCount,
                    m_loading, m_hasMore, loadedWith, mixed, lastCall>>

\* RustBridge::indexDirectoryAsync: 0 without a handle, else what
\* photowall_index_directory_async returns.
IndexDirectoryAsync(startOk) ==
    IF handle /\ startOk THEN startCalls + 1 ELSE 0

\* startIndexing(path).
StartIndexing(startOk) ==
    /\ startCalls < MaxStarts
    /\ startCalls' = startCalls + 1
    /\ IF m_indexing
       THEN UNCHANGED <<m_indexing, m_currentIndexJobId, coreJob>>
       ELSE /\ m_indexing' = TRUE
            /\ m_currentIndexJobId' = IndexDirectoryAsync(startOk)
            /\ coreJob' = IF handle /\ startOk
                          THEN [id |-> startCalls + 1, state |-> "running"]
                          ELSE coreJob
    /\ UNCHANGED <<storeEvents, photoCount, photoModelVars, indexFrame>>

\* cancelIndexing(), with RustBridge::cancelJob.
CancelIndexing ==
    /\ coreJob' = IF /\ m_indexing
                     /\ m_currentIndexJobId # 0
                     /\ handle
                     /\ coreJob.id = m_currentIndexJobId
                     /\ coreJob.state = "running"
                  THEN [coreJob EXCEPT !.state = "cancelling"]
                  ELSE coreJob
    /\ UNCHANGED <<m_indexing, m_currentIndexJobId, storeEvents, startCalls,
                   photoCount, photoModelVars, indexFrame>>

\* The core's job ran to its end; it may have added photos.
CoreFinishes(n) ==
    /\ coreJob.state \in {"running", "cancelling"}
    /\ Len(storeEvents) < MaxStoreEvents
    /\ n >= photoCount
    /\ photoCount' = n
    /\ coreJob' = NoJob
    /\ storeEvents' = Append(storeEvents, "index-finished")
    /\ UNCHANGED <<m_indexing, m_currentIndexJobId, startCalls,
                   photoModelVars, indexFrame>>

\* The core stopped the job it was asked to cancel.
CoreCancels ==
    /\ coreJob.state = "cancelling"
    /\ Len(storeEvents) < MaxStoreEvents
    /\ coreJob' = NoJob
    /\ storeEvents' = Append(storeEvents, "index-cancelled")
    /\ UNCHANGED <<m_indexing, m_currentIndexJobId, startCalls, photoCount,
                   photoModelVars, indexFrame>>

\* onIndexFinished, with m_photoModel->refresh().
OnIndexFinished ==
    /\ storeEvents # <<>>
    /\ Head(storeEvents) = "index-finished"
    /\ storeEvents' = Tail(storeEvents)
    /\ m_indexing' = FALSE
    /\ m_currentIndexJobId' = 0
    /\ lastCall' = Called(PhotoModelOfStore, "refresh")
    /\ IF m_loading[PhotoModelOfStore]
       THEN UNCHANGED <<m_photos, m_idToIndex, m_nextCursor, m_totalCount,
                        m_loading, m_hasMore, loadedWith, mixed>>
       ELSE /\ PhotosAsync(PhotoModelOfStore, TRUE, TRUE)
            /\ loadedWith' = [loadedWith EXCEPT ![PhotoModelOfStore] =
                                m_searchFilters[PhotoModelOfStore]]
            /\ mixed' = [mixed EXCEPT ![PhotoModelOfStore] = FALSE]
    /\ UNCHANGED <<coreJob, startCalls, photoCount, indexFrame>>

\* onIndexCancelled.
OnIndexCancelled ==
    /\ storeEvents # <<>>
    /\ Head(storeEvents) = "index-cancelled"
    /\ storeEvents' = Tail(storeEvents)
    /\ m_indexing' = FALSE
    /\ m_currentIndexJobId' = 0
    /\ UNCHANGED <<coreJob, startCalls, photoCount, photoModelVars, indexFrame>>

IndexNext ==
    \/ \E startOk \in BOOLEAN : StartIndexing(startOk)
    \/ CancelIndexing
    \/ \E n \in 0..MaxIndexed : CoreFinishes(n)
    \/ CoreCancels
    \/ OnIndexFinished
    \/ OnIndexCancelled

IndexSpec == IndexInit /\ [][IndexNext]_vars

\* C36: while indexing is true a non-zero job id is held; a startIndexing
\* call while indexing is true changes nothing of the store or the core;
\* after an index-finished or index-cancelled event the store is at
\* indexing = false with job id 0.
C36_IndexingStateMachine ==
    /\ [](m_indexing => m_currentIndexJobId # 0)
    /\ [][startCalls' > startCalls /\ m_indexing
          => UNCHANGED <<m_indexing, m_currentIndexJobId, coreJob>>]_vars
    /\ [][storeEvents # <<>> /\ storeEvents' = Tail(storeEvents)
          => ~m_indexing' /\ m_currentIndexJobId' = 0]_vars

\* ----------------------------------------------------- PhotoStore selection
\* selectPhoto / toggleSelection / selectRange / selectAll / clearSelection
\* of PhotoStore over PhotoModel::setSelected and clearSelection.  The photo
\* model holds the photos 1..photoCount of a database that has up to
\* MaxSelIds photos.
MaxSelIds == 5
SelIds == 1..MaxSelIds
SelTotals == {0, 2, MaxSelIds - 1}

SelInit ==
    /\ handle = TRUE
    /\ m_imageCache = <<>>
    /\ maxCost = DEFAULT_CACHE_SIZE
    /\ m_pendingRequests = <<>>
    /\ resp = [r \in ReqIds |-> NoResponse]
    /\ engineJobs = [k \in Keys |-> 0]
    /\ evq = <<>>
    /\ notify = IdleNotify
    /\ enqCalls = [k \in Keys |-> 0]
    /\ enqOpen = [h \in Hashes |-> 0]
    /\ processed = 0
    /\ emitted = [r \in ReqIds |-> 0]
    /\ removals = [r \in ReqIds |-> 0]
    /\ registered = {}
    /\ dangling = FALSE
    /\ kept = {}
    /\ uses = <<>>
    /\ hit = FALSE
    /\ thr = [t \in Threads |-> IdleThread]
    /\ m_pendingMutex = 0
    /\ m_cacheMutex = 0
    /\ calls = [r \in ReqIds |-> 0]
    /\ photo = NoPhoto
    /\ id = <<>>
    /\ parsed = NoParse
    /\ handed = <<>>
    /\ posted = <<>>
    /\ signals = <<>>
    /\ StoreIdle
    /\ photoCount \in SelTotals
    /\ m_photos = [m \in Models |->
                     IF m = PhotoModelOfStore THEN [k \in 1..photoCount |-> k]
                     ELSE <<>>]
    /\ m_idToIndex = [m \in Models |->
                        IF m = PhotoModelOfStore
                        THEN [i \in 1..photoCount |-> i - 1] ELSE <<>>]
    /\ m_nextCursor = [m \in Models |-> <<>>]
    /\ m_searchFilters = [m \in Models |-> IF m = 1 THEN "" ELSE "favoritesOnly"]
    /\ m_totalCount = [m \in Models |->
                         IF m = PhotoModelOfStore THEN photoCount ELSE 0]
    /\ m_loading = [m \in Models |-> FALSE]
    /\ m_hasMore = [m \in Models |-> FALSE]
    /\ loadedWith = [m \in Models |-> IF m = PhotoModelOfStore THEN "" ELSE "never"]
    /\ mixed = [m \in Models |-> FALSE]
    /\ lastCall = [m |-> PhotoModelOfStore, op |-> "loadInitial", rows |-> 0,
                   was |-> "never"]
    /\ loadCalls = 1

selFrame == <<handle, m_imageCache, maxCost, m_pendingRequests, resp,
              engineJobs, evq, notify, enqCalls, enqOpen, processed, emitted,
              removals, registered, dangling, kept, uses, hit, thr,
              m_pendingMutex, m_cacheMutex, calls, photo, id, parsed, handed,
              posted, signals, modelVars, m_indexing, m_currentIndexJobId,
              coreJob, storeEvents, startCalls>>

\* PhotoModel::setSelected(photoId, selected) on the selection sel.
SetSelected(sel, i, selected) ==
    IF IndexOfPhoto(PhotoModelOfStore, i) < 0 THEN sel
    ELSE IF selected THEN sel \cup {i} ELSE sel \ {i}

\* The ids of the rows lo..hi (counted from 0) of the photo model.
RowIds(lo, hi) == {m_photos[PhotoModelOfStore][k + 1] : k \in lo..hi}

\* selectPhoto(id, append).
SelectPhoto(i, append) ==
    /\ m_selectedIds' = (IF append THEN m_selectedIds ELSE {}) \cup {i}
    /\ modelSelectedIds' = SetSelected(modelSelectedIds, i, TRUE)
    /\ UNCHANGED selFrame

\* toggleSelection(id).
ToggleSelection(i) ==
    /\ m_selectedIds' = IF i \in m_selectedIds THEN m_selectedIds \ {i}
                        ELSE m_selectedIds \cup {i}
    /\ modelSelectedIds' = SetSelected(modelSelectedIds, i, i \notin m_selectedIds)
    /\ UNCHANGED selFrame

\* selectRange(fromId, toId).
SelectRange(fromId, toId) ==
    LET fromIdx == IndexOfPhoto(PhotoModelOfStore, fromId)
        toIdx == IndexOfPhoto(PhotoModelOfStore, toId)
        ids == RowIds(Min(fromIdx, toIdx), IF fromIdx > toIdx THEN fromIdx ELSE toIdx)
    IN /\ IF fromIdx < 0 \/ toIdx < 0
          THEN UNCHANGED <<m_selectedIds, modelSelectedIds>>
          ELSE /\ m_selectedIds' = m_selectedIds \cup ids
               /\ modelSelectedIds' = modelSelectedIds \cup
                     {i \in ids : IndexOfPhoto(PhotoModelOfStore, i) >= 0}
       /\ UNCHANGED selFrame

\* selectAll().
SelectAll ==
    LET ids == RowIds(0, Len(m_photos[PhotoModelOfStore]) - 1)
    IN /\ m_selectedIds' = m_selectedIds \cup ids
       /\ modelSelectedIds' = modelSelectedIds \cup
             {i \in ids : IndexOfPhoto(PhotoModelOfStore, i) >= 0}
       /\ UNCHANGED selFrame

\* clearSelection(), with PhotoModel::clearSelection.
ClearSelection ==
    /\ m_selectedIds' = {}
    /\ modelSelectedIds' = {}
    /\ UNCHANGED selFrame

SelNext ==
    \/ \E i \in SelIds, append \in BOOLEAN : SelectPhoto(i, append)
    \/ \E i \in SelIds : ToggleSelection(i)
    \/ \E i \in SelIds, j \in SelIds : SelectRange(i, j)
    \/ SelectAll
    \/ ClearSelection

SelSpec == SelInit /\ [][SelNext]_vars

\* C37: the ids selected in PhotoStore are the ids selected in its photo
\* model.
C37_SelectionConsistency == m_selectedIds = modelSelectedIds

====
